---- MODULE Spec2Model ----
(***************************************************************************)
(* A model of goinsane/logng: the asynchronous QueuedOutput (bounded       *)
(* queue, background worker, Close), the Logger's gates and derivations,   *)
(* and the locking of TextOutput / JSONOutput.                             *)
(*                                                                         *)
(* The sources hold more than one revision of output.go and logger.go.     *)
(* The model follows the revision of src/unnamed/part_002 (QueuedOutput    *)
(* with closing / logWg / wg, Logger with ctxErrVerbosity) together with   *)
(* src/jsonoutput.go; where the older src/output.go and src/logger.go      *)
(* differ, the comments say so.                                            *)
(*                                                                         *)
(* Each component has its own specification (SpecQueue, SpecLogger,        *)
(* SpecOutput); the variables of the other components keep their initial   *)
(* values.                                                                 *)
(***************************************************************************)
EXTENDS Naturals, Integers, Sequences, FiniteSets

(***************************************************************************)
(* Bounds of the model.                                                    *)
(***************************************************************************)
\* the largest queueLen given to NewQueuedOutput
MaxQueueLen == 2
\* the number of Log calls made on the QueuedOutput
MaxLogs == 3
\* the largest verbose / verbosity value
MaxVerbose == 2

\* goroutines calling QueuedOutput.Log, and goroutines calling Close
Producers == {"p1", "p2"}
Closers == {"c1", "c2"}

LogIds == 1..MaxLogs
NoLog == 0

\* a nil Fields slice (README.md:238-240): no backing array, len and cap 0
NilFields == [arr |-> 0, len |-> 0, cap |-> 0]

\* the nil *Logger
Nil == [nil |-> TRUE]

\* the caller's two *Logger variables of SpecDerive
Slots == {"parent", "derived"}

VARIABLES
    \* ---- QueuedOutput (src/unnamed/part_002:35-43) ----
    queueLen,      \* capacity of the channel o.queue
    queue,         \* the logs buffered in o.queue, oldest first
    queueClosed,   \* number of close(o.queue) executed
    closing,       \* o.closing
    logWg,         \* o.logWg: [v |-> counter, w |-> waiters]
    wg,            \* o.wg: counter (the worker)
    blocking,      \* o.blocking
    onQueueFull,   \* o.onQueueFull: "unset" (nil pointer), "nilfn", "fn"
    pcLog,         \* position of each producer inside Log
    pcClose,       \* position of each closer inside Close
    worker,        \* position of the worker goroutine
    workerLog,     \* the log the worker has received and not yet forwarded
    panicked,      \* "none", or the panic that has crashed the process
    \* ---- history of the QueuedOutput run ----
    nextId,        \* the next log to be passed to Log
    enqueued,      \* logs placed on o.queue, in the order of placement
    delivered,     \* logs passed to the wrapped Output, in order
    call,          \* per producer: what its latest Log call did
    lateFrom,      \* the first log whose Log call began with o.closing set
    won,           \* per closer: its CompareAndSwap set o.closing
    workerExits,   \* number of times the worker has returned
    \* ---- Logger (src/unnamed/part_002:361-374) ----
    logger,        \* the caller's *Logger: Nil, or the fields of the Logger
    exited,        \* os.Exit(1) has been called
    \* ---- history of the Logger run ----
    op,            \* the method called last
    handed,        \* the Logs the latest call passed to output.Log, in order
    ret,           \* the *Logger the latest call returned: "nil", "logger", "none"
    \* ---- TextOutput / JSONOutput (part_002:118-123, jsonoutput.go) ----
    kind,          \* "text" or "json": which of the two Outputs this is
    mu,            \* o.mu: [readers |-> holders of RLock, writer |-> "none",
                   \*        "pending" (Lock waits for the readers), "held"]
    flags,         \* o.flags
    pcOut,         \* position of each producer inside Log of this Output
    buf,           \* per producer: the record formatted into its buf
    pcSet,         \* position of the goroutine calling SetFlags
    setArg,        \* the argument of the SetFlags call in progress
    \* ---- history of the Output run ----
    sink,          \* the pieces received by the writer o.w, in order
    nextRec,       \* the next log to be passed to Log of this Output
    \* ---- Loggers derived from one another (part_002:391-415, 703-818) ----
    loggers,       \* the caller's *Logger variables: Nil, or the Logger's fields
    arrays,        \* the backing arrays of the Fields slices, by number
    calls,         \* number of methods called on the Loggers
    target,        \* the variable the latest call assigned, or whose Logger it set
    \* ---- MultiOutput (part_002:18-31) ----
    outputs,       \* len(o): the number of sub-outputs given to MultiOutput
    logObjs,       \* the Log objects, by number; 1 is the caller's
    multiPc,       \* [at |-> "idle", "loop" or "returned", i |-> the sub-output called next]
    received,      \* per call of a sub-output: the *Log passed and what it held
    \* ---- history of the Logger's severity setters ----
    printSet,      \* <<>>, or the argument of the latest SetPrintSeverity call
    \* ---- QueuedOutput.WaitForEmpty (src/output.go:108-120) ----
    pcWait,        \* "idle", "select" (in the loop), "nil" or "err" (returned that)
    ctxDone,       \* the context given to WaitForEmpty has ended
    waitBefore,    \* the logs enqueued before the WaitForEmpty call began
    \* ---- onError of TextOutput / JSONOutput (part_002:122, jsonoutput.go:19) ----
    onError,       \* o.onError: "unset" (nil pointer), "nilfn", "fn"
    reported,      \* the calls of the onError function: the log and the error
    \* ---- a chain of derivations and its emissions (part_002:417-528, 713-770) ----
    pcFatal,       \* "idle", or "exit": l.log of a Fatal call has returned
    exitCode,      \* <<>>, or the argument of the os.Exit call made
    prefixes,      \* the WithPrefix texts of the chain, in call order
    suffixes,      \* the WithSuffix texts of the chain, in call order
    pinned,        \* <<>>, or the argument of the WithTime call in force
    \* ---- the fields of a Log rendered by JSONOutput (jsonoutput.go:129-165) ----
    logFields,     \* log.Fields
    rendered,      \* the keys of the entries written for the fields, in order
    \* ---- a Severity and its text form (severity.go:49-95) ----
    sevValue,      \* the Severity variable MarshalText / UnmarshalText is called on
    sevOp,         \* "none", or the method called last
    sevText,       \* the text the latest call was given or returned
    sevErr,        \* <<>> (nil), or the error the latest call returned
    \* ---- the text TextOutput.Log writes for a Log (part_002:134-268) ----
    padFlags,      \* o.flags: the set of the TextOutputFlags that are set
    padLog,        \* the Log given to TextOutput.Log
    padOut,        \* <<>>, or the bytes Log has copied to the writer
    \* ---- the Logger's lock (part_002:362) and the calls running under it ----
    lmu,           \* l.mu: [readers, writer |-> "none", "pending", "held",
                   \*        by |-> the goroutine calling Lock, or "none"]
    pcLock,        \* position of each goroutine inside out or a setter
    outputDoes,    \* what Log of the Logger's Output does: "returns", "blocks"
                   \* (it does not return), "setter" (it calls a setter of l)
    \* ---- a V call in progress on the parent Logger (part_002:689-700) ----
    pcV,           \* "idle", or "checked": V has released the lock after its test
    vArg,          \* the verbosity given to the V call in progress
    \* ---- Log calls of TextOutput / JSONOutput and their deferred calls ----
    frames,        \* the Log calls each goroutine is inside, outermost first
    hookDoes       \* what the function given to SetOnError does: "returns",
                   \* "SetFlags", "SetWriter", "Log" (it calls that on o)

queueVars == <<queueLen, queue, queueClosed, closing, logWg, wg, blocking,
               onQueueFull, pcLog, pcClose, worker, workerLog, panicked,
               nextId, enqueued, delivered, call, lateFrom, won, workerExits>>

loggerVars == <<logger, exited, op, handed, ret>>

outputVars == <<kind, mu, flags, pcOut, buf, pcSet, setArg, sink, nextRec>>

deriveVars == <<loggers, arrays, calls, target>>

\* the variables of the components specified further down
multiVars == <<outputs, logObjs, multiPc, received>>

severityVars == <<printSet>>

waitVars == <<pcWait, ctxDone, waitBefore>>

errorVars == <<onError, reported>>

chainVars == <<pcFatal, exitCode, prefixes, suffixes, pinned>>

jsonVars == <<logFields, rendered>>

textVars == <<sevValue, sevOp, sevText, sevErr>>

\* the variables of the components specified last
padVars == <<padFlags, padLog, padOut>>

lockVars == <<lmu, pcLock, outputDoes>>

staleVars == <<pcV, vArg>>

hookVars == <<frames, hookDoes>>

finalVars == <<textVars, padVars, lockVars, staleVars, hookVars>>

laterVars == <<deriveVars, multiVars, severityVars, waitVars, errorVars,
               chainVars, jsonVars, finalVars>>

\* per component specified further down: the variables of the others
exceptDerive == <<multiVars, severityVars, waitVars, errorVars, chainVars, jsonVars,
                 finalVars>>
exceptMulti == <<deriveVars, severityVars, waitVars, errorVars, chainVars, jsonVars,
                 finalVars>>
exceptSeverity == <<deriveVars, multiVars, waitVars, errorVars, chainVars, jsonVars,
                 finalVars>>
exceptWait == <<deriveVars, multiVars, severityVars, errorVars, chainVars, jsonVars,
                 finalVars>>
exceptError == <<deriveVars, multiVars, severityVars, waitVars, chainVars, jsonVars,
                 finalVars>>
exceptChain == <<loggers, arrays, target, multiVars, severityVars, waitVars,
                 errorVars, jsonVars,
                 finalVars>>
exceptJSON == <<deriveVars, multiVars, severityVars, waitVars, errorVars, chainVars,
                 finalVars>>

vars == <<queueVars, loggerVars, outputVars, laterVars>>

(***************************************************************************)
(* QueuedOutput                                                            *)
(***************************************************************************)

\* what is recorded of a producer's latest Log call: the log passed, whether
\* o.closing was set when the call began, the o.blocking it read, what became
\* of the log, the number of onQueueFull calls made, whether it has returned,
\* and the log this producer placed on the queue most recently before
NoCall == [log |-> NoLog, late |-> FALSE, mode |-> "unread",
           result |-> "none", hook |-> 0, returned |-> FALSE, prev |-> NoLog]

\* SpecQueue: the QueuedOutput is constructed and configured before it is shared,
\* NewQueuedOutput(output, n).SetBlocking(b).SetOnQueueFull(f); Log and Close
\* then run concurrently
Configured(n, b, f) ==
    /\ queueLen = n
    /\ queue = <<>>
    /\ queueClosed = 0
    /\ closing = 0
    /\ logWg = [v |-> 0, w |-> 0]
    /\ wg = 1
    /\ blocking = b
    /\ onQueueFull = f
    /\ pcLog = [p \in Producers |-> "idle"]
    /\ pcClose = [c \in Closers |-> "idle"]
    /\ worker = "recv"
    /\ workerLog = NoLog
    /\ panicked = "none"
    /\ nextId = 1
    /\ enqueued = <<>>
    /\ delivered = <<>>
    /\ call = [p \in Producers |-> NoCall]
    /\ lateFrom = NoLog
    /\ won = [c \in Closers |-> FALSE]
    /\ workerExits = 0

InitQueue ==
    \E n \in 0..MaxQueueLen, b \in {0, 1} : Configured(n, b, "fn")

\* NewQueuedOutput (part_002:46-54): an empty channel of capacity queueLen,
\* o.wg.Add(1), go o.worker(); blocking is 0 and onQueueFull nil
NewQueuedOutput(n) == Configured(n, 0, "unset")

\* SpecQueueOpen: the QueuedOutput as constructed; it is never closed, and
\* SetBlocking and SetOnQueueFull run concurrently with Log
InitQueueOpen == \E n \in 0..MaxQueueLen : NewQueuedOutput(n)

Running == panicked = "none"

\* a variant of CanSend that lets a send proceed on a full buffer
CanSendOnFull ==
    \/ Len(queue) <= queueLen
    \/ queueLen = 0 /\ worker = "recv" /\ queue = <<>>

\* a send on o.queue can proceed: a free slot in the buffer, or, for an
\* unbuffered channel, the worker waiting in its receive
CanSend ==
    \/ Len(queue) < queueLen
    \/ queueLen = 0 /\ worker = "recv" /\ queue = <<>>

\* the effect of a send of log i that proceeds
ChanSend(i) ==
    /\ IF Len(queue) < queueLen
         THEN /\ queue' = Append(queue, i)
              /\ UNCHANGED <<worker, workerLog>>
         ELSE /\ worker' = "deliver"
              /\ workerLog' = i
              /\ UNCHANGED queue
    /\ enqueued' = Append(enqueued, i)

\* Log line 75: the call goes on only while o.closing is 0
LogAccepts(cl) == cl = 0

\* Close line 59: atomic.CompareAndSwapInt32(&o.closing, 0, 1) succeeds
CloseWins(cl) == cl = 0

\* sync.WaitGroup.Wait returns at once when the counter is 0 (Close line 62)
WaitGroupIdle(g) == g.v = 0

\* a variant of CallOnQueueFull that calls whatever the pointer holds
CallOnQueueFullUnchecked(h) == IF h # "unset" THEN 1 ELSE 0

\* Log lines 85-88: onQueueFull is called when the pointer and the function
\* it points to are both non-nil; the number of calls made
CallOnQueueFull(h) == IF h = "fn" THEN 1 ELSE 0

\* a variant of Received that takes the newest log
ReceivedNewest(q) == q[Len(q)]

\* the log a receive takes from the channel: the oldest one
Received(q) == Head(q)

\* a variant of RangeEnds that stops at the close, whatever is buffered
RangeEndsAtClose(q, nclosed) == nclosed > 0

\* worker line 112: `for log := range o.queue` ends when the channel is closed
\* and empty
RangeEnds(q, nclosed) == q = <<>> /\ nclosed > 0

\* ---- Log (part_002:72-90) ----

LogReturn(p) ==
    /\ pcLog' = [pcLog EXCEPT ![p] = "idle"]
    /\ call' = [call EXCEPT ![p].returned = TRUE]

\* line 73, o.logWg.Add(1). sync.WaitGroup panics when Add raises the counter
\* from 0 while a Wait is registered ("Add called concurrently with Wait").
LogStart(p) ==
    /\ Running
    /\ pcLog[p] = "idle"
    /\ nextId <= MaxLogs
    /\ nextId' = nextId + 1
    /\ call' = [call EXCEPT ![p] =
                  [NoCall EXCEPT !.log = nextId,
                                 !.late = (closing # 0),
                                 !.prev = IF call[p].result = "queued"
                                            THEN call[p].log ELSE call[p].prev]]
    /\ lateFrom' = IF closing # 0 /\ lateFrom = NoLog THEN nextId ELSE lateFrom
    /\ logWg' = [logWg EXCEPT !.v = logWg.v + 1]
    /\ IF logWg.w # 0 /\ logWg.v = 0
         THEN /\ panicked' = "WaitGroup misuse: Add called concurrently with Wait"
              /\ UNCHANGED pcLog
         ELSE /\ pcLog' = [pcLog EXCEPT ![p] = "check"]
              /\ UNCHANGED panicked
    /\ UNCHANGED <<queueLen, queue, queueClosed, closing, wg, blocking,
                   onQueueFull, pcClose, worker, workerLog, enqueued,
                   delivered, won, workerExits>>

\* lines 75-78: return when closing, else read o.blocking
LogCheck(p) ==
    /\ Running
    /\ UNCHANGED lateFrom
    /\ pcLog[p] = "check"
    /\ IF LogAccepts(closing)
         THEN /\ pcLog' = [pcLog EXCEPT ![p] = "send"]
              /\ call' = [call EXCEPT ![p].mode =
                            IF blocking # 0 THEN "blocking" ELSE "nonblocking"]
         ELSE /\ pcLog' = [pcLog EXCEPT ![p] = "done"]
              /\ call' = [call EXCEPT ![p].result = "closing"]
    /\ UNCHANGED <<queueLen, queue, queueClosed, closing, logWg, wg, blocking,
                   onQueueFull, pcClose, worker, workerLog, panicked,
                   nextId, enqueued, delivered, won, workerExits>>

\* line 79, `o.queue <- log`: waits until the send can proceed; a send on a
\* closed channel panics
LogSendBlocking(p) ==
    /\ Running
    /\ UNCHANGED lateFrom
    /\ pcLog[p] = "send"
    /\ call[p].mode = "blocking"
    /\ IF queueClosed > 0
         THEN /\ panicked' = "send on closed channel"
              /\ UNCHANGED <<queue, worker, workerLog, enqueued, pcLog, call>>
         ELSE /\ CanSend
              /\ ChanSend(call[p].log)
              /\ pcLog' = [pcLog EXCEPT ![p] = "done"]
              /\ call' = [call EXCEPT ![p].result = "queued"]
              /\ UNCHANGED panicked
    /\ UNCHANGED <<queueLen, queueClosed, closing, logWg, wg, blocking,
                   onQueueFull, pcClose, nextId, delivered, won,
                   workerExits>>

\* lines 82-89: select { case o.queue <- log: default: onQueueFull() }
LogSendSelect(p) ==
    /\ Running
    /\ UNCHANGED lateFrom
    /\ pcLog[p] = "send"
    /\ call[p].mode = "nonblocking"
    /\ IF queueClosed > 0
         THEN /\ panicked' = "send on closed channel"
              /\ UNCHANGED <<queue, worker, workerLog, enqueued, pcLog, call>>
         ELSE /\ IF CanSend
                   THEN /\ ChanSend(call[p].log)
                        /\ call' = [call EXCEPT ![p].result = "queued"]
                   ELSE /\ call' = [call EXCEPT
                                ![p].result = "full",
                                ![p].hook = CallOnQueueFull(onQueueFull)]
                        /\ UNCHANGED <<queue, worker, workerLog, enqueued>>
              /\ pcLog' = [pcLog EXCEPT ![p] = "done"]
              /\ UNCHANGED panicked
    /\ UNCHANGED <<queueLen, queueClosed, closing, logWg, wg, blocking,
                   onQueueFull, pcClose, nextId, delivered, won,
                   workerExits>>

\* line 74, the deferred o.logWg.Done(): Add(-1). When the counter reaches 0
\* with a Wait registered, Done goes on to release the waiter (LogDoneWake).
LogDone(p) ==
    /\ Running
    /\ UNCHANGED lateFrom
    /\ pcLog[p] = "done"
    /\ logWg' = [logWg EXCEPT !.v = logWg.v - 1]
    /\ IF logWg.v = 1 /\ logWg.w > 0
         THEN /\ pcLog' = [pcLog EXCEPT ![p] = "wake"]
              /\ UNCHANGED call
         ELSE LogReturn(p)
    /\ UNCHANGED <<queueLen, queue, queueClosed, closing, wg, blocking,
                   onQueueFull, pcClose, worker, workerLog, panicked, nextId,
                   enqueued, delivered, won, workerExits>>

\* the second half of sync.WaitGroup.Add(-1): reset the state, release the
\* goroutine sleeping in Wait
LogDoneWake(p) ==
    /\ Running
    /\ UNCHANGED lateFrom
    /\ pcLog[p] = "wake"
    /\ logWg' = [v |-> 0, w |-> 0]
    /\ pcClose' = [c \in Closers |->
                     IF pcClose[c] = "asleep" THEN "woken" ELSE pcClose[c]]
    /\ LogReturn(p)
    /\ UNCHANGED <<queueLen, queue, queueClosed, closing, wg, blocking,
                   onQueueFull, worker, workerLog, panicked, nextId, enqueued,
                   delivered, won, workerExits>>

\* ---- Close (part_002:58-66) ----

\* lines 59-61: the CompareAndSwap; a call that loses it returns nil
CloseCAS(c) ==
    /\ Running
    /\ UNCHANGED lateFrom
    /\ pcClose[c] = "idle"
    /\ IF CloseWins(closing)
         THEN /\ closing' = 1
              /\ won' = [won EXCEPT ![c] = TRUE]
              /\ pcClose' = [pcClose EXCEPT ![c] = "logwait"]
         ELSE /\ pcClose' = [pcClose EXCEPT ![c] = "returned"]
              /\ UNCHANGED <<closing, won>>
    /\ UNCHANGED <<queueLen, queue, queueClosed, logWg, wg, blocking,
                   onQueueFull, pcLog, worker, workerLog, panicked,
                   nextId, enqueued, delivered, call, workerExits>>

\* line 62, o.logWg.Wait(): go on when the counter is 0, else register as a
\* waiter and sleep
CloseLogWait(c) ==
    /\ Running
    /\ UNCHANGED lateFrom
    /\ pcClose[c] = "logwait"
    /\ IF WaitGroupIdle(logWg)
         THEN /\ pcClose' = [pcClose EXCEPT ![c] = "close"]
              /\ UNCHANGED logWg
         ELSE /\ pcClose' = [pcClose EXCEPT ![c] = "asleep"]
              /\ logWg' = [logWg EXCEPT !.w = logWg.w + 1]
    /\ UNCHANGED <<queueLen, queue, queueClosed, closing, wg, blocking,
                   onQueueFull, pcLog, worker, workerLog, panicked,
                   nextId, enqueued, delivered, call, won, workerExits>>

\* line 62, Wait woken up: sync.WaitGroup panics when its state is no longer
\* zero ("WaitGroup is reused before previous Wait has returned")
CloseWoken(c) ==
    /\ Running
    /\ UNCHANGED lateFrom
    /\ pcClose[c] = "woken"
    /\ IF logWg = [v |-> 0, w |-> 0]
         THEN /\ pcClose' = [pcClose EXCEPT ![c] = "close"]
              /\ UNCHANGED panicked
         ELSE /\ panicked' = "WaitGroup is reused before previous Wait has returned"
              /\ UNCHANGED pcClose
    /\ UNCHANGED <<queueLen, queue, queueClosed, closing, logWg, wg, blocking,
                   onQueueFull, pcLog, worker, workerLog, nextId,
                   enqueued, delivered, call, won, workerExits>>

\* line 63, close(o.queue): closing a closed channel panics
CloseQueue(c) ==
    /\ Running
    /\ UNCHANGED lateFrom
    /\ pcClose[c] = "close"
    /\ IF queueClosed > 0
         THEN /\ panicked' = "close of closed channel"
              /\ UNCHANGED <<queueClosed, pcClose>>
         ELSE /\ queueClosed' = queueClosed + 1
              /\ pcClose' = [pcClose EXCEPT ![c] = "wgwait"]
              /\ UNCHANGED panicked
    /\ UNCHANGED <<queueLen, queue, closing, logWg, wg, blocking, onQueueFull,
                   pcLog, worker, workerLog, nextId, enqueued,
                   delivered, call, won, workerExits>>

\* lines 64-65, o.wg.Wait() and return nil
CloseWgWait(c) ==
    /\ Running
    /\ UNCHANGED lateFrom
    /\ pcClose[c] = "wgwait"
    /\ wg = 0
    /\ pcClose' = [pcClose EXCEPT ![c] = "returned"]
    /\ UNCHANGED <<queueLen, queue, queueClosed, closing, logWg, wg, blocking,
                   onQueueFull, pcLog, worker, workerLog, panicked,
                   nextId, enqueued, delivered, call, won, workerExits>>

\* ---- worker (part_002:110-115) ----

\* line 112: receive the next log from o.queue
WorkerRecv ==
    /\ Running
    /\ UNCHANGED lateFrom
    /\ worker = "recv"
    /\ queue # <<>>
    /\ workerLog' = Received(queue)
    /\ queue' = SelectSeq(queue, LAMBDA i : i # Received(queue))
    /\ worker' = "deliver"
    /\ UNCHANGED <<queueLen, queueClosed, closing, logWg, wg, blocking,
                   onQueueFull, pcLog, pcClose, panicked, nextId,
                   enqueued, delivered, call, won, workerExits>>

\* a variant of WorkerDeliver in which a second call of the wrapped Output,
\* for the next log of the queue, is made along with the worker's
WorkerDeliverTwice ==
    /\ Running
    /\ UNCHANGED lateFrom
    /\ worker = "deliver"
    /\ delivered' = IF queue # <<>> THEN delivered \o <<workerLog, Head(queue)>>
                    ELSE Append(delivered, workerLog)
    /\ queue' = IF queue # <<>> THEN Tail(queue) ELSE queue
    /\ workerLog' = NoLog
    /\ worker' = "recv"
    /\ UNCHANGED <<queueLen, queueClosed, closing, logWg, wg, blocking,
                   onQueueFull, pcLog, pcClose, panicked, nextId,
                   enqueued, call, won, workerExits>>

\* line 113: o.output.Log(log)
WorkerDeliver ==
    /\ Running
    /\ UNCHANGED lateFrom
    /\ worker = "deliver"
    /\ delivered' = Append(delivered, workerLog)
    /\ workerLog' = NoLog
    /\ worker' = "recv"
    /\ UNCHANGED <<queueLen, queue, queueClosed, closing, logWg, wg, blocking,
                   onQueueFull, pcLog, pcClose, panicked, nextId,
                   enqueued, call, won, workerExits>>

\* lines 111-112: the range loop ends, the deferred o.wg.Done() runs
WorkerExit ==
    /\ Running
    /\ UNCHANGED lateFrom
    /\ worker = "recv"
    /\ RangeEnds(queue, queueClosed)
    /\ worker' = "exited"
    /\ wg' = wg - 1
    /\ workerExits' = workerExits + 1
    /\ UNCHANGED <<queueLen, queue, queueClosed, closing, logWg, blocking,
                   onQueueFull, pcLog, pcClose, workerLog, panicked,
                   nextId, enqueued, delivered, call, won>>

\* ---- SetBlocking (part_002:94-101), SetOnQueueFull (part_002:105-108) ----

\* a call that stores the value already there changes nothing
SetBlocking(b) ==
    /\ Running
    /\ UNCHANGED lateFrom
    /\ blocking' = (IF b THEN 1 ELSE 0)
    /\ blocking' # blocking
    /\ UNCHANGED <<queueLen, queue, queueClosed, closing, logWg, wg,
                   onQueueFull, pcLog, pcClose, worker, workerLog,
                   panicked, nextId, enqueued, delivered, call, won,
                   workerExits>>

\* f is "nilfn" (a nil func) or "fn"; the stored pointer is never nil again
SetOnQueueFull(f) ==
    /\ Running
    /\ UNCHANGED lateFrom
    /\ onQueueFull' = f
    /\ onQueueFull' # onQueueFull
    /\ UNCHANGED <<queueLen, queue, queueClosed, closing, logWg, wg, blocking,
                   pcLog, pcClose, worker, workerLog, panicked, nextId,
                   enqueued, delivered, call, won, workerExits>>

NextQueue ==
    \/ \E p \in Producers : LogStart(p) /\ UNCHANGED <<loggerVars, outputVars, laterVars>>
    \/ \E p \in Producers : LogCheck(p) /\ UNCHANGED <<loggerVars, outputVars, laterVars>>
    \/ \E p \in Producers : LogSendBlocking(p) /\ UNCHANGED <<loggerVars, outputVars, laterVars>>
    \/ \E p \in Producers : LogSendSelect(p) /\ UNCHANGED <<loggerVars, outputVars, laterVars>>
    \/ \E p \in Producers : LogDone(p) /\ UNCHANGED <<loggerVars, outputVars, laterVars>>
    \/ \E p \in Producers : LogDoneWake(p) /\ UNCHANGED <<loggerVars, outputVars, laterVars>>
    \/ \E c \in Closers : CloseCAS(c) /\ UNCHANGED <<loggerVars, outputVars, laterVars>>
    \/ \E c \in Closers : CloseLogWait(c) /\ UNCHANGED <<loggerVars, outputVars, laterVars>>
    \/ \E c \in Closers : CloseWoken(c) /\ UNCHANGED <<loggerVars, outputVars, laterVars>>
    \/ \E c \in Closers : CloseQueue(c) /\ UNCHANGED <<loggerVars, outputVars, laterVars>>
    \/ \E c \in Closers : CloseWgWait(c) /\ UNCHANGED <<loggerVars, outputVars, laterVars>>
    \/ WorkerRecv /\ UNCHANGED <<loggerVars, outputVars, laterVars>>
    \/ WorkerDeliver /\ UNCHANGED <<loggerVars, outputVars, laterVars>>
    \/ WorkerExit /\ UNCHANGED <<loggerVars, outputVars, laterVars>>

\* the Logger of the other specification, left as constructed
IdleLogger ==
    /\ logger = [output |-> "nil", severity |-> 4, verbose |-> 0,
                 printSeverity |-> 4, stackTraceSeverity |-> 0, verbosity |-> 0,
                 time |-> <<>>, prefix |-> <<>>, suffix |-> <<>>,
                 fields |-> NilFields, ctxErrVerbosity |-> 0]
    /\ exited = FALSE
    /\ op = "none"
    /\ handed = <<>>
    /\ ret = "none"

\* the Output of the specifications that do not exercise it: as constructed
IdleOutput ==
    /\ kind = "text"
    /\ mu = [readers |-> {}, writer |-> "none"]
    /\ flags = 0
    /\ pcOut = [p \in Producers |-> "idle"]
    /\ buf = [p \in Producers |-> <<>>]
    /\ pcSet = "idle"
    /\ setArg = 0
    /\ sink = <<>>
    /\ nextRec = 1

\* no Logger has been derived
IdleDerive ==
    /\ loggers = [r \in Slots |-> Nil]
    /\ arrays = <<>>
    /\ calls = 0
    /\ target = "none"

\* the components specified further down, before anything is called on them
\* MultiOutput() without sub-outputs, not called
IdleMulti ==
    /\ outputs = 0
    /\ logObjs = <<>>
    /\ multiPc = [at |-> "idle", i |-> 1]
    /\ received = <<>>

\* SetPrintSeverity has not been called
IdleSeverity == printSet = <<>>

\* WaitForEmpty has not been called
IdleWait ==
    /\ pcWait = "idle"
    /\ ctxDone = FALSE
    /\ waitBefore = <<>>

\* NewTextOutput / NewJSONOutput leave onError nil
IdleError ==
    /\ onError = "unset"
    /\ reported = <<>>

\* no Fatal call, no derivation
IdleChain ==
    /\ pcFatal = "idle"
    /\ exitCode = <<>>
    /\ prefixes = <<>>
    /\ suffixes = <<>>
    /\ pinned = <<>>

\* no Log has been rendered
IdleJSON ==
    /\ logFields = <<>>
    /\ rendered = <<>>

\* no Severity method has been called
IdleText ==
    /\ sevValue = 0
    /\ sevOp = "none"
    /\ sevText = <<>>
    /\ sevErr = <<>>

\* a TextOutput without flags that has not been given a Log
IdlePad ==
    /\ padFlags = {}
    /\ padLog = <<>>
    /\ padOut = <<>>

\* no goroutine is inside a method of the Logger
IdleLock ==
    /\ lmu = [readers |-> {}, writer |-> "none", by |-> "none"]
    /\ pcLock = <<>>
    /\ outputDoes = "returns"

\* no V call is in progress
IdleStale ==
    /\ pcV = "idle"
    /\ vArg = 0

\* no Log call is in progress
IdleHook ==
    /\ frames = [p \in Producers |-> <<>>]
    /\ hookDoes = "returns"

IdleFinal == IdleText /\ IdlePad /\ IdleLock /\ IdleStale /\ IdleHook

IdleLater ==
    /\ IdleDerive /\ IdleMulti /\ IdleSeverity /\ IdleWait /\ IdleError
    /\ IdleChain /\ IdleJSON /\ IdleFinal

InitSpecQueue == InitQueue /\ IdleLogger /\ IdleOutput /\ IdleLater

SpecQueue == InitSpecQueue /\ [][NextQueue]_vars

NextQueueOpen ==
    \/ \E p \in Producers : LogStart(p) /\ UNCHANGED <<loggerVars, outputVars, laterVars>>
    \/ \E p \in Producers : LogCheck(p) /\ UNCHANGED <<loggerVars, outputVars, laterVars>>
    \/ \E p \in Producers : LogSendBlocking(p) /\ UNCHANGED <<loggerVars, outputVars, laterVars>>
    \/ \E p \in Producers : LogSendSelect(p) /\ UNCHANGED <<loggerVars, outputVars, laterVars>>
    \/ \E p \in Producers : LogDone(p) /\ UNCHANGED <<loggerVars, outputVars, laterVars>>
    \/ WorkerRecv /\ UNCHANGED <<loggerVars, outputVars, laterVars>>
    \/ WorkerDeliver /\ UNCHANGED <<loggerVars, outputVars, laterVars>>
    \/ \E b \in BOOLEAN : SetBlocking(b) /\ UNCHANGED <<loggerVars, outputVars, laterVars>>
    \/ \E f \in {"nilfn", "fn"} : SetOnQueueFull(f) /\ UNCHANGED <<loggerVars, outputVars, laterVars>>

InitSpecQueueOpen == InitQueueOpen /\ IdleLogger /\ IdleOutput /\ IdleLater

SpecQueueOpen == InitSpecQueueOpen /\ [][NextQueueOpen]_vars

\* the worker goroutine is scheduled: a receive or a call of the wrapped Output
\* that can run does run
FairSpecQueueOpen ==
    /\ SpecQueueOpen
    /\ WF_vars(WorkerRecv /\ UNCHANGED <<loggerVars, outputVars, laterVars>>)
    /\ WF_vars(WorkerDeliver /\ UNCHANGED <<loggerVars, outputVars, laterVars>>)

(***************************************************************************)
(* Properties of the QueuedOutput                                          *)
(***************************************************************************)

Range(f) == {f[i] : i \in DOMAIN f}

IsPrefix(a, b) == Len(a) <= Len(b) /\ \A i \in 1..Len(a) : a[i] = b[i]

\* position of x in the sequence a (0 when absent)
IndexOf(a, x) == IF x \in Range(a) THEN CHOOSE i \in 1..Len(a) : a[i] = x ELSE 0

\* the queue is empty, the worker has exited, every log placed on the queue
\* has been passed to the wrapped Output
Drained == queue = <<>> /\ worker = "exited" /\ delivered = enqueued

\* the logs whose Log call began after Close had set o.closing
LateLogs == IF lateFrom = NoLog THEN {} ELSE {i \in LogIds : lateFrom <= i /\ i < nextId}

C4_LateLogDroppedWithoutPanic ==
    /\ panicked # "send on closed channel"
    /\ panicked # "WaitGroup misuse: Add called concurrently with Wait"
    /\ LateLogs \cap (Range(enqueued) \cup Range(delivered)) = {}
    /\ \A p \in Producers :
          call[p].late => call[p].hook = 0 /\ call[p].result \in {"none", "closing"}

\* The part of C4 that holds: no send on the closed channel, late logs dropped
C4_NoSendOnClosedQueue ==
    /\ panicked # "send on closed channel"
    /\ LateLogs \cap (Range(enqueued) \cup Range(delivered)) = {}
    /\ \A p \in Producers :
          call[p].late => call[p].hook = 0 /\ call[p].result \in {"none", "closing"}

\* C5 as stated: however many Close calls are made, the queue channel is
\* closed exactly once, the worker stops exactly once, no Close call panics
\* and each returns (nil).
C5_CloseIdempotent ==
    /\ queueClosed <= 1
    /\ workerExits <= 1
    /\ panicked # "close of closed channel"
    /\ panicked # "WaitGroup is reused before previous Wait has returned"
    /\ (\E c \in Closers : won[c] /\ pcClose[c] = "returned")
          => queueClosed = 1 /\ workerExits = 1

\* The part of C5 that holds: one close of the channel, one worker exit
C5_ClosedOnce ==
    /\ queueClosed <= 1
    /\ workerExits <= 1
    /\ panicked # "close of closed channel"
    /\ (\E c \in Closers : won[c] /\ pcClose[c] = "returned")
          => queueClosed = 1 /\ workerExits = 1

\* C8 as stated: when a blocking-mode Log call returns, the wrapped Output's
\* Log has been called with its log and has returned.
C8_BlockingLogReturnsAfterOutput ==
    \A p \in Producers :
        call[p].returned /\ call[p].mode = "blocking"
            => call[p].log \in Range(delivered)

\* C9: the worker passes logs to the wrapped Output in the order they were
\* placed on the queue, each placed log at most once and no other log; the
\* logs one producer placed in successive calls are placed, and so passed on,
\* in call order.
C9_DeliveredInQueueOrder ==
    /\ IsPrefix(delivered, enqueued)
    /\ \A i, j \in 1..Len(enqueued) : i # j => enqueued[i] # enqueued[j]
    /\ \A p \in Producers :
          call[p].prev # NoLog /\ call[p].result = "queued" =>
              /\ IndexOf(enqueued, call[p].prev) > 0
              /\ IndexOf(enqueued, call[p].prev) < IndexOf(enqueued, call[p].log)
              /\ call[p].log \in Range(delivered)
                    => /\ call[p].prev \in Range(delivered)
                       /\ IndexOf(delivered, call[p].prev)
                              < IndexOf(delivered, call[p].log)

\* C9 witness: two successive logs of one producer have been passed on while
\* another producer's log was placed between them
C9_Witness ==
    \E p \in Producers :
        /\ call[p].prev # NoLog
        /\ call[p].log \in Range(delivered)
        /\ IndexOf(delivered, call[p].log) - IndexOf(delivered, call[p].prev) = 2

\* a send on the queue would proceed: a free slot in the buffer, or for an
\* unbuffered queue the worker waiting to receive
HasRoom == Len(queue) < queueLen \/ (queueLen = 0 /\ worker = "recv")

\* C6: a non-blocking Log call on an open QueuedOutput never waits; when the
\* queue has room its log is placed on the queue and onQueueFull is not
\* called; otherwise the log is dropped and onQueueFull is called exactly once
\* if a non-nil hook is set, and not at all if none is.
C6_NonBlockingLog ==
    /\ [](\A p \in Producers :
            pcLog[p] = "send" /\ call[p].mode = "nonblocking"
                => ENABLED (LogSendSelect(p) /\ UNCHANGED <<loggerVars, outputVars, laterVars>>))
    /\ [][\A p \in Producers :
            pcLog[p] = "send" /\ call[p].mode = "nonblocking" /\ pcLog'[p] # "send"
                => IF HasRoom
                     THEN /\ enqueued' = Append(enqueued, call[p].log)
                          /\ call'[p].result = "queued"
                          /\ call'[p].hook = 0
                     ELSE /\ enqueued' = enqueued
                          /\ queue' = queue
                          /\ call'[p].result = "full"
                          /\ call'[p].hook = (IF onQueueFull = "fn" THEN 1 ELSE 0)]_vars

\* C6 witness: queue length 1, one log with the worker and one buffered; the
\* third Log call has returned with its log dropped and one onQueueFull call
C6_Witness ==
    \E p \in Producers :
        /\ queueLen = 1 /\ worker = "deliver" /\ queue = <<2>> /\ workerLog = 1
        /\ onQueueFull = "fn"
        /\ call[p].log = 3 /\ call[p].returned
        /\ call[p].result = "full" /\ call[p].hook = 1

\* C7: a blocking Log call on an open QueuedOutput never drops its log and
\* never calls onQueueFull; it waits while the queue is full (no step takes
\* it past its send or places a log then), returns only
\* after its log is placed on the queue, and a placed log is never lost and
\* is in the end passed to the wrapped Output (time and again the worker has
\* passed on every log placed so far).
C7_BlockingLog ==
    /\ [](\A p \in Producers :
            call[p].mode = "blocking" =>
                /\ call[p].hook = 0
                /\ call[p].result \in {"none", "queued"}
                /\ call[p].returned => call[p].log \in Range(enqueued))
    /\ [][\A p \in Producers :
            pcLog[p] = "send" /\ call[p].mode = "blocking" /\ ~HasRoom
                => pcLog'[p] = "send" /\ enqueued' = enqueued]_vars
    /\ [](Range(enqueued) =
            Range(delivered) \cup Range(queue) \cup ({workerLog} \ {NoLog}))
    /\ []<>(delivered = enqueued)

\* C7 witness: while a hook is set, one blocking Log call has returned with
\* its log placed and another waits on the full queue
C7_Witness ==
    \E p, q \in Producers :
        /\ pcLog[p] = "send" /\ call[p].mode = "blocking"
        /\ ~HasRoom /\ onQueueFull = "fn"
        /\ call[q].returned /\ call[q].mode = "blocking"
        /\ call[q].result = "queued"

(***************************************************************************)
(* Logger (src/unnamed/part_002:349-818; severity.go)                      *)
(***************************************************************************)

\* severity.go:10-28
SeverityNone == 0
SeverityFatal == 1
SeverityError == 2
SeverityWarning == 3
SeverityInfo == 4
SeverityDebug == 5

\* the arguments tried for a Severity parameter: the six values and one
\* out-of-range value on each side
SeverityArgs == (SeverityNone - 1)..(SeverityDebug + 1)
Verbosities == 0..MaxVerbose
Outputs == {"nil", "out"}
\* the error found in the arguments of an emit call: none, an ordinary error,
\* or one that is or wraps context.Canceled / context.DeadlineExceeded
Errors == {"nil", "other", "ctx"}

\* a variant of IsValid without the upper limit
IsValidFromNone(s) == SeverityNone <= s

\* severity.go:31-41, IsValid / CheckValid
IsValid(s) == SeverityNone <= s /\ s <= SeverityDebug

\* part_002:377-388
NewLogger(output, severity, verbose) ==
    [output |-> output,
     severity |-> IF IsValid(severity) THEN severity ELSE SeverityInfo,
     verbose |-> verbose,
     printSeverity |-> SeverityInfo,
     stackTraceSeverity |-> SeverityNone,
     verbosity |-> 0,
     time |-> <<>>,
     prefix |-> <<>>,
     suffix |-> <<>>,
     fields |-> NilFields,
     ctxErrVerbosity |-> 0]

\* part_002:391-415: a copy of every field (Nil stays Nil)
Clone(l) == l

\* a variant of IsCtxErr that takes every error for a context error
IsCtxErrAny(err) == err # "nil"

\* part_002:434, errors.Is(err, context.Canceled) || errors.Is(err, context.DeadlineExceeded)
IsCtxErr(err) == err = "ctx"

\* a variant of Gated without the verbosity gate
GatedButVerbosity(l, severity, err) ==
    \/ l.output = "nil"
    \/ l.severity < severity
    \/ IsCtxErr(err) /\ l.verbose < l.ctxErrVerbosity

\* a variant of Gated whose severity gate also suppresses at the threshold
GatedAtThreshold(l, severity, err) ==
    \/ l.output = "nil"
    \/ l.severity <= severity
    \/ l.verbose < l.verbosity
    \/ IsCtxErr(err) /\ l.verbose < l.ctxErrVerbosity

\* part_002:425-436: the four gates of out
Gated(l, severity, err) ==
    \/ l.output = "nil"
    \/ l.severity < severity
    \/ l.verbose < l.verbosity
    \/ IsCtxErr(err) /\ l.verbose < l.ctxErrVerbosity

\* part_002:417-479, out: the Logs passed to l.output.Log
Out(l, severity, err) ==
    IF l = Nil THEN <<>>
    ELSE IF Gated(l, severity, err) THEN <<>>
    ELSE <<[Severity |-> severity, Verbosity |-> l.verbosity]>>

\* part_002:703-710
WithVerbosity(l, verbosity) ==
    IF l = Nil THEN Nil ELSE [Clone(l) EXCEPT !.verbosity = verbosity]

\* a variant of V that does not look at the verbose threshold
VAlways(l, verbosity) ==
    IF l = Nil THEN Nil ELSE WithVerbosity(l, verbosity)

\* part_002:689-700
V(l, verbosity) ==
    IF l = Nil THEN Nil
    ELSE IF l.verbose < verbosity THEN Nil
    ELSE WithVerbosity(l, verbosity)

\* part_002:811-818
WithCtxErrVerbosity(l, verbosity) ==
    IF l = Nil THEN Nil ELSE [Clone(l) EXCEPT !.ctxErrVerbosity = verbosity]

\* part_002:616-624
SetOutput(l, output) ==
    IF l = Nil THEN Nil ELSE [l EXCEPT !.output = output]

\* part_002:629-640
SetSeverity(l, severity) ==
    IF l = Nil THEN Nil
    ELSE [l EXCEPT !.severity = IF IsValid(severity) THEN severity ELSE SeverityInfo]

\* part_002:644-652
SetVerbose(l, verbose) ==
    IF l = Nil THEN Nil ELSE [l EXCEPT !.verbose = verbose]

\* a variant of PrintSeverityOut that logs with SeverityInfo
PrintSeverityOutInfo(l, err) ==
    IF l = Nil THEN <<>> ELSE Out(l, SeverityInfo, err)

\* part_002:591-596: Print returns at once on the nil Logger, else logs with
\* l.printSeverity
PrintSeverityOut(l, err) ==
    IF l = Nil THEN <<>> ELSE Out(l, l.printSeverity, err)

InitLogger ==
    /\ \E o \in Outputs, s \in SeverityArgs, v \in Verbosities :
          logger = NewLogger(o, s, v)
    /\ exited = FALSE
    /\ op = "none"
    /\ handed = <<>>
    /\ ret = "none"

Alive == ~exited

\* the *Logger a method returns: nil or a Logger
Returned(l) == IF l = Nil THEN "nil" ELSE "logger"

\* l.Error / Warning / Info / Debug and their f / ln forms (part_002:530-588)
Emit(severity, err) ==
    /\ Alive
    /\ op' = "Emit"
    /\ handed' = Out(logger, severity, err)
    /\ ret' = "none"
    /\ UNCHANGED <<logger, exited>>

\* l.Fatal / Fatalf / Fatalln (part_002:512-528): log, then os.Exit(1)
Fatal(err) ==
    /\ Alive
    /\ op' = "Fatal"
    /\ handed' = Out(logger, SeverityFatal, err)
    /\ exited' = TRUE
    /\ ret' = "none"
    /\ UNCHANGED logger

\* l.Print / Printf / Println (part_002:590-612)
CallPrint(err) ==
    /\ Alive
    /\ op' = "Print"
    /\ handed' = PrintSeverityOut(logger, err)
    /\ ret' = "none"
    /\ UNCHANGED <<logger, exited>>

\* l.SetOutput(output): the receiver is changed in place and returned
CallSetOutput(output) ==
    /\ Alive
    /\ op' = "SetOutput"
    /\ logger' = SetOutput(logger, output)
    /\ ret' = Returned(SetOutput(logger, output))
    /\ handed' = <<>>
    /\ UNCHANGED exited

CallSetSeverity(severity) ==
    /\ Alive
    /\ op' = "SetSeverity"
    /\ logger' = SetSeverity(logger, severity)
    /\ ret' = Returned(SetSeverity(logger, severity))
    /\ handed' = <<>>
    /\ UNCHANGED exited

CallSetVerbose(verbose) ==
    /\ Alive
    /\ op' = "SetVerbose"
    /\ logger' = SetVerbose(logger, verbose)
    /\ ret' = Returned(SetVerbose(logger, verbose))
    /\ handed' = <<>>
    /\ UNCHANGED exited

\* l = l.V(verbosity): the caller goes on with the result
CallV(verbosity) ==
    /\ Alive
    /\ op' = "V"
    /\ logger' = V(logger, verbosity)
    /\ ret' = Returned(V(logger, verbosity))
    /\ handed' = <<>>
    /\ UNCHANGED exited

\* l = l.WithVerbosity(verbosity)
CallWithVerbosity(verbosity) ==
    /\ Alive
    /\ op' = "WithVerbosity"
    /\ logger' = WithVerbosity(logger, verbosity)
    /\ ret' = Returned(WithVerbosity(logger, verbosity))
    /\ handed' = <<>>
    /\ UNCHANGED exited

\* l = l.WithCtxErrVerbosity(verbosity)
CallWithCtxErrVerbosity(verbosity) ==
    /\ Alive
    /\ op' = "WithCtxErrVerbosity"
    /\ logger' = WithCtxErrVerbosity(logger, verbosity)
    /\ ret' = Returned(WithCtxErrVerbosity(logger, verbosity))
    /\ handed' = <<>>
    /\ UNCHANGED exited

LeveledSeverities == {SeverityError, SeverityWarning, SeverityInfo, SeverityDebug}

NextLogger ==
    \/ \E s \in LeveledSeverities, e \in Errors :
          Emit(s, e) /\ UNCHANGED <<queueVars, outputVars, laterVars>>
    \/ \E e \in Errors :
          Fatal(e) /\ UNCHANGED <<queueVars, outputVars, laterVars>>
    \/ \E e \in Errors :
          CallPrint(e) /\ UNCHANGED <<queueVars, outputVars, laterVars>>
    \/ \E o \in Outputs :
          CallSetOutput(o) /\ UNCHANGED <<queueVars, outputVars, laterVars>>
    \/ \E s \in SeverityArgs :
          CallSetSeverity(s) /\ UNCHANGED <<queueVars, outputVars, laterVars>>
    \/ \E v \in Verbosities :
          CallSetVerbose(v) /\ UNCHANGED <<queueVars, outputVars, laterVars>>
    \/ \E v \in Verbosities :
          CallV(v) /\ UNCHANGED <<queueVars, outputVars, laterVars>>
    \/ \E v \in Verbosities :
          CallWithVerbosity(v) /\ UNCHANGED <<queueVars, outputVars, laterVars>>
    \/ \E v \in Verbosities :
          CallWithCtxErrVerbosity(v) /\ UNCHANGED <<queueVars, outputVars, laterVars>>

\* SpecLogger: one goroutine calling the methods of a Logger, going on with
\* the Logger a derivation returns; the QueuedOutput and the TextOutput are
\* left as constructed
InitSpecLogger == InitLogger /\ NewQueuedOutput(0) /\ IdleOutput /\ IdleLater

SpecLogger == InitSpecLogger /\ [][NextLogger]_vars

\* a leveled emit call: Fatal for SeverityFatal, else Error .. Debug
EmitCall(severity, err) ==
    IF severity = SeverityFatal THEN Fatal(err) ELSE Emit(severity, err)

\* the call handed exactly one Log, with the given Severity, to the output
HandedOne(severity) == Len(handed') = 1 /\ handed'[1].Severity = severity

\* C1 (as stated): for a Logger with a non-nil output whose verbosity is
\* within its verbose threshold, a leveled emit at severity S hands exactly
\* one Log with Severity S to the output when the severity threshold >= S and
\* hands nothing when the threshold < S, whatever SetSeverity calls came
\* before; with threshold None nothing is emitted.
C1_SeverityGate ==
    [][\A s \in SeverityFatal..SeverityDebug, e \in Errors :
          (/\ logger # Nil
           /\ logger.output # "nil"
           /\ logger.verbosity <= logger.verbose
           /\ EmitCall(s, e))
          => /\ IF logger.severity >= s THEN HandedOne(s) ELSE handed' = <<>>
             /\ logger.severity = SeverityNone => handed' = <<>>]_vars

\* C1 (amended): the same, for calls that pass the context-error gate too:
\* the call's error is not a context cancellation or deadline error, or the
\* Logger's ctxErrVerbosity is within its verbose threshold.
C1_SeverityGateCtx ==
    [][\A s \in SeverityFatal..SeverityDebug, e \in Errors :
          (/\ logger # Nil
           /\ logger.output # "nil"
           /\ logger.verbosity <= logger.verbose
           /\ (e = "ctx" => logger.ctxErrVerbosity <= logger.verbose)
           /\ EmitCall(s, e))
          => /\ IF logger.severity >= s THEN HandedOne(s) ELSE handed' = <<>>
             /\ logger.severity = SeverityNone => handed' = <<>>]_vars

\* an Error .. Debug call at the threshold itself has handed its
\* Log to the output
C1_Witness ==
    /\ op = "Emit"
    /\ logger # Nil
    /\ logger.output = "out"
    /\ logger.severity = SeverityWarning
    /\ handed = <<[Severity |-> SeverityWarning, Verbosity |-> logger.verbosity]>>

\* any method called on the Logger
AnyCall ==
    \/ \E s \in LeveledSeverities, e \in Errors : Emit(s, e)
    \/ \E e \in Errors : Fatal(e)
    \/ \E e \in Errors : CallPrint(e)
    \/ \E o \in Outputs : CallSetOutput(o)
    \/ \E s \in SeverityArgs : CallSetSeverity(s)
    \/ \E v \in Verbosities : CallSetVerbose(v)
    \/ \E v \in Verbosities : CallV(v)
    \/ \E v \in Verbosities : CallWithVerbosity(v)
    \/ \E v \in Verbosities : CallWithCtxErrVerbosity(v)

\* V(v) on a Logger with verbose threshold T returns a Logger carrying
\* verbosity v iff T >= v, and nil otherwise
VReturns ==
    \A v \in Verbosities :
        (logger # Nil /\ CallV(v))
        => IF logger.verbose >= v
           THEN ret' = "logger" /\ logger' # Nil /\ logger'.verbosity = v
           ELSE ret' = "nil" /\ logger' = Nil

\* the call on the nil Logger called no Output and returned nil or nothing
NoOutput ==
    /\ handed' = <<>>
    /\ logger' = Nil
    /\ ret' = (IF op' \in {"Emit", "Fatal", "Print"} THEN "none" ELSE "nil")

Kinds == {"text", "json"}
FlagArgs == {0, 1}

\* the two pieces of a formatted record, as the writer receives them
Pieces(rec) ==
    <<[id |-> rec.id, by |-> rec.by, flags |-> rec.flags, part |-> 1],
      [id |-> rec.id, by |-> rec.by, flags |-> rec.flags, part |-> 2]>>

\* NewTextOutput (part_002:126-131), NewJSONOutput (jsonoutput.go:24-30)
InitOutput ==
    /\ kind \in Kinds
    /\ mu = [readers |-> {}, writer |-> "none"]
    /\ flags \in FlagArgs
    /\ pcOut = [p \in Producers |-> "idle"]
    /\ buf = [p \in Producers |-> <<>>]
    /\ pcSet = "idle"
    /\ setArg = 0
    /\ sink = <<>>
    /\ nextRec = 1

\* sync.RWMutex: RLock succeeds unless a Lock is held or waiting
CanRLock(m) == m.writer = "none"
\* sync.RWMutex: a waiting Lock is granted when the last reader has left
CanLock(m) == m.readers = {}

\* Log, o.mu.RLock() and the formatting of the log into buf with o.flags
\* (part_002:144-261, jsonoutput.go:43-165)
OutputLogRLock(p) ==
    /\ pcOut[p] = "idle"
    /\ nextRec <= MaxLogs
    /\ CanRLock(mu)
    /\ mu' = [mu EXCEPT !.readers = @ \cup {p}]
    /\ buf' = [buf EXCEPT ![p] = [id |-> nextRec, by |-> p, flags |-> flags]]
    /\ nextRec' = nextRec + 1
    /\ pcOut' = [pcOut EXCEPT ![p] = "formatted"]
    /\ UNCHANGED <<kind, flags, pcSet, setArg, sink>>

\* Log, io.Copy(o.w, buf): the Write begins (part_002:263, jsonoutput.go:167)
OutputLogWrite(p) ==
    /\ pcOut[p] = "formatted"
    /\ sink' = Append(sink, Pieces(buf[p])[1])
    /\ pcOut' = [pcOut EXCEPT ![p] = "writing"]
    /\ UNCHANGED <<kind, mu, flags, buf, pcSet, setArg, nextRec>>

\* Log, io.Copy(o.w, buf): the Write completes
OutputLogWritten(p) ==
    /\ pcOut[p] = "writing"
    /\ sink' = Append(sink, Pieces(buf[p])[2])
    /\ pcOut' = [pcOut EXCEPT ![p] = "written"]
    /\ UNCHANGED <<kind, mu, flags, buf, pcSet, setArg, nextRec>>

\* Log, the deferred o.mu.RUnlock() (part_002:145, jsonoutput.go:44)
OutputLogRUnlock(p) ==
    /\ pcOut[p] = "written"
    /\ mu' = [mu EXCEPT !.readers = @ \ {p}]
    /\ pcOut' = [pcOut EXCEPT ![p] = "idle"]
    /\ UNCHANGED <<kind, flags, buf, pcSet, setArg, sink, nextRec>>

\* SetFlags, o.mu.Lock() is called (part_002:282, jsonoutput.go:187)
SetFlagsLock(f) ==
    /\ pcSet = "idle"
    /\ mu.writer = "none"
    /\ mu' = [mu EXCEPT !.writer = "pending"]
    /\ pcSet' = "lock"
    /\ setArg' = f
    /\ UNCHANGED <<kind, flags, pcOut, buf, sink, nextRec>>

\* SetFlags, o.mu.Lock() returns
SetFlagsLocked ==
    /\ pcSet = "lock"
    /\ CanLock(mu)
    /\ mu' = [mu EXCEPT !.writer = "held"]
    /\ pcSet' = "locked"
    /\ UNCHANGED <<kind, flags, pcOut, buf, setArg, sink, nextRec>>

\* SetFlags, o.flags = flags and the deferred o.mu.Unlock()
\* (part_002:283-285, jsonoutput.go:188-190)
SetFlagsUnlock ==
    /\ pcSet = "locked"
    /\ flags' = setArg
    /\ mu' = [mu EXCEPT !.writer = "none"]
    /\ pcSet' = "idle"
    /\ UNCHANGED <<kind, pcOut, buf, setArg, sink, nextRec>>

NextOutput ==
    \/ \E p \in Producers :
          OutputLogRLock(p) /\ UNCHANGED <<queueVars, loggerVars, laterVars>>
    \/ \E p \in Producers :
          OutputLogWrite(p) /\ UNCHANGED <<queueVars, loggerVars, laterVars>>
    \/ \E p \in Producers :
          OutputLogWritten(p) /\ UNCHANGED <<queueVars, loggerVars, laterVars>>
    \/ \E p \in Producers :
          OutputLogRUnlock(p) /\ UNCHANGED <<queueVars, loggerVars, laterVars>>
    \/ \E f \in FlagArgs :
          SetFlagsLock(f) /\ UNCHANGED <<queueVars, loggerVars, laterVars>>
    \/ SetFlagsLocked /\ UNCHANGED <<queueVars, loggerVars, laterVars>>
    \/ SetFlagsUnlock /\ UNCHANGED <<queueVars, loggerVars, laterVars>>

\* SpecOutput: two goroutines calling Log on one TextOutput or JSONOutput
\* while a third calls SetFlags
InitSpecOutput == InitOutput /\ NewQueuedOutput(0) /\ IdleLogger /\ IdleLater

SpecOutput == InitSpecOutput /\ [][NextOutput]_vars

\* the producers whose Log call is inside the Write to o.w
InWrite == {p \in Producers : pcOut[p] = "writing"}

\* the positions in the sink of the pieces of record i
PiecesAt(i) == {k \in 1..Len(sink) : sink[k].id = i}

\* record i has reached the sink as one complete record
Whole(i) ==
    \E k \in 1..(Len(sink) - 1) :
        /\ PiecesAt(i) = {k, k + 1}
        /\ sink[k].part = 1 /\ sink[k + 1].part = 2

\* C10: at most one Log call at a time is inside the write to the underlying
\* writer, every log whose Write has completed is in the sink as one complete
\* record, and the logs of one producer are in the sink in the order of its
\* Log calls.
C10_WritesMutuallyExclusive ==
    /\ Cardinality(InWrite) <= 1
    /\ \A i \in 1..(nextRec - 1) :
          (\E k \in PiecesAt(i) : sink[k].part = 2) => Whole(i)
    /\ \A j, k \in 1..Len(sink) :
          (j < k /\ sink[j].by = sink[k].by) => sink[j].id <= sink[k].id

\* what the read lock does guarantee: no Log call is between RLock and
\* RUnlock while SetFlags holds the write lock, and a record carries the
\* flags that were set when it was formatted
\* C10, the single-producer part: one producer's sequential logs reach the
\* sink in call order
C10_ProducerOrder ==
    \A j, k \in 1..Len(sink) :
        (j < k /\ sink[j].by = sink[k].by) => sink[j].id <= sink[k].id

C10_LogExcludesSetters ==
    /\ mu.writer = "held" => mu.readers = {}
    /\ \A p \in Producers : pcOut[p] # "idle" <=> p \in mu.readers

(***************************************************************************)
(* Loggers derived from one another (part_002:391-415, 703-818).           *)
(*                                                                         *)
(* Every derivation method clones the receiver and changes the clone.  The *)
(* only part of a Logger that two Loggers could share and change is the    *)
(* backing array of the fields slice: Clone copies it with Fields.Clone    *)
(* (README.md:237-246), WithFields appends to the copy.  The arrays are    *)
(* kept by number, a slice is [arr, len, cap], and append writes in place  *)
(* when the capacity allows, as Go's append does.                          *)
(***************************************************************************)

\* the number of methods called on the Loggers of SpecDerive
MaxCalls == 3

\* the zero time.Time
ZeroTime == 0

\* the pinned times tried: the zero time.Time and another instant
Times == {ZeroTime, ZeroTime + 1}

\* an array element no slice has written yet
NoField == [free |-> TRUE]

\* the Field appended by the n-th call (README.md:227-230, Field{Key, Value})
FieldOf(n) == [Key |-> "key", Value |-> n]

\* the elements of a Fields slice
FieldsOf(h, f) == IF f.arr = 0 THEN <<>> ELSE SubSeq(h[f.arr], 1, f.len)

\* a variant of FieldsClone that returns the receiver's slice itself
FieldsCloneShared(h, f) == [fields |-> f, arrays |-> h]

\* README.md:237-246, Fields.Clone: nil for nil, else the elements appended
\* to make(Fields, 0, len(f)); gives the new slice and the arrays after it
FieldsClone(h, f) ==
    IF f = NilFields THEN [fields |-> NilFields, arrays |-> h]
    ELSE [fields |-> [arr |-> Len(h) + 1, len |-> f.len, cap |-> f.len],
          arrays |-> Append(h, FieldsOf(h, f))]

\* Go's append(f, xs...): written into f's array when len(f)+len(xs) <= cap(f),
\* else into a new array whose capacity exceeds what is needed by spare (the
\* growth is the runtime's choice)
AppendFields(h, f, xs, spare) ==
    IF xs = <<>> THEN [fields |-> f, arrays |-> h]
    ELSE IF f.len + Len(xs) <= f.cap
    THEN [fields |-> [f EXCEPT !.len = f.len + Len(xs)],
          arrays |-> [h EXCEPT ![f.arr] =
                        [i \in 1..f.cap |->
                            IF f.len < i /\ i <= f.len + Len(xs)
                            THEN xs[i - f.len] ELSE h[f.arr][i]]]]
    ELSE [fields |-> [arr |-> Len(h) + 1, len |-> f.len + Len(xs),
                      cap |-> f.len + Len(xs) + spare],
          arrays |-> Append(h, FieldsOf(h, f) \o xs
                                \o [i \in 1..spare |-> NoField])]

\* part_002:391-415 with the arrays: d is the copy of the scalar fields of l
\* (with the change a With method makes to it); its fields become
\* l.fields.Clone()
Cloned(h, l, d) ==
    IF d = Nil THEN [logger |-> Nil, arrays |-> h]
    ELSE [logger |-> [d EXCEPT !.fields = FieldsClone(h, l.fields).fields],
          arrays |-> FieldsClone(h, l.fields).arrays]

\* part_002:713-720: l2.time = &tm; l.time is <<>> for the nil pointer, <<tm>>
\* for a pointer to tm
WithTime(l, tm) ==
    IF l = Nil THEN Nil ELSE [Clone(l) EXCEPT !.time = <<tm>>]

\* part_002:723-730: l2.time = nil
WithoutTime(l) ==
    IF l = Nil THEN Nil ELSE [Clone(l) EXCEPT !.time = <<>>]

\* part_002:733-750, WithPrefix / WithPrefixf: l2.prefix += text
WithPrefix(l, text) ==
    IF l = Nil THEN Nil ELSE [Clone(l) EXCEPT !.prefix = l.prefix \o text]

\* a variant of WithSuffix that adds the text at the end of the suffix
WithSuffixAtEnd(l, text) ==
    IF l = Nil THEN Nil ELSE [Clone(l) EXCEPT !.suffix = l.suffix \o text]

\* part_002:753-770, WithSuffix / WithSuffixf: l2.suffix = text + l2.suffix
WithSuffix(l, text) ==
    IF l = Nil THEN Nil ELSE [Clone(l) EXCEPT !.suffix = text \o l.suffix]

\* part_002:773-780, WithFields: l2.fields = append(l2.fields, fields...);
\* WithFieldKeyVals and WithFieldMap (783-808) build the Fields and call it
WithFields(h, l, xs, spare) ==
    IF l = Nil THEN [logger |-> Nil, arrays |-> h]
    ELSE LET c == Cloned(h, l, Clone(l))
             a == AppendFields(c.arrays, c.logger.fields, xs, spare)
         IN [logger |-> [c.logger EXCEPT !.fields = a.fields],
             arrays |-> a.arrays]

\* SpecDerive: a Logger as NewLogger returns it, in the variable parent
InitDerive ==
    /\ loggers = [r \in Slots |->
                    IF r = "parent"
                    THEN NewLogger("out", SeverityInfo, MaxVerbose) ELSE Nil]
    /\ arrays = <<>>
    /\ calls = 0
    /\ target = "none"
    /\ op = "none"

\* to = from.<method>(...): the method has returned c.logger and left the
\* arrays c.arrays
Assign(from, to, method, c) ==
    /\ calls < MaxCalls
    /\ calls' = calls + 1
    /\ loggers' = [loggers EXCEPT ![to] = c.logger]
    /\ arrays' = c.arrays
    /\ target' = to
    /\ op' = method
    /\ UNCHANGED <<logger, exited, handed, ret>>

DeriveClone(from, to) ==
    Assign(from, to, "Clone",
           Cloned(arrays, loggers[from], Clone(loggers[from])))

DeriveV(from, to, verbosity) ==
    Assign(from, to, "V",
           Cloned(arrays, loggers[from], V(loggers[from], verbosity)))

DeriveWithVerbosity(from, to, verbosity) ==
    Assign(from, to, "WithVerbosity",
           Cloned(arrays, loggers[from], WithVerbosity(loggers[from], verbosity)))

DeriveWithCtxErrVerbosity(from, to, verbosity) ==
    Assign(from, to, "WithCtxErrVerbosity",
           Cloned(arrays, loggers[from],
                  WithCtxErrVerbosity(loggers[from], verbosity)))

DeriveWithTime(from, to, tm) ==
    Assign(from, to, "WithTime",
           Cloned(arrays, loggers[from], WithTime(loggers[from], tm)))

DeriveWithoutTime(from, to) ==
    Assign(from, to, "WithoutTime",
           Cloned(arrays, loggers[from], WithoutTime(loggers[from])))

DeriveWithPrefix(from, to, text) ==
    Assign(from, to, "WithPrefix",
           Cloned(arrays, loggers[from], WithPrefix(loggers[from], text)))

DeriveWithSuffix(from, to, text) ==
    Assign(from, to, "WithSuffix",
           Cloned(arrays, loggers[from], WithSuffix(loggers[from], text)))

\* WithFields / WithFieldKeyVals / WithFieldMap with one Field
DeriveWithFields(from, to, spare) ==
    Assign(from, to, "WithFields",
           WithFields(arrays, loggers[from], <<FieldOf(calls + 1)>>, spare))

\* r.SetSeverity / r.SetVerbose: the Logger of r is changed in place
SetterOn(r, method, l) ==
    /\ calls < MaxCalls
    /\ calls' = calls + 1
    /\ loggers' = [loggers EXCEPT ![r] = l]
    /\ target' = r
    /\ op' = method
    /\ UNCHANGED <<arrays, logger, exited, handed, ret>>

DeriveSetSeverity(r, severity) ==
    SetterOn(r, "SetSeverity", SetSeverity(loggers[r], severity))

DeriveSetVerbose(r, verbose) ==
    SetterOn(r, "SetVerbose", SetVerbose(loggers[r], verbose))

NextDerive ==
    \/ \E from \in Slots, to \in Slots :
          DeriveClone(from, to) /\ UNCHANGED <<queueVars, outputVars, exceptDerive>>
    \/ \E from \in Slots, to \in Slots :
          DeriveV(from, to, 1) /\ UNCHANGED <<queueVars, outputVars, exceptDerive>>
    \/ \E from \in Slots, to \in Slots :
          DeriveWithVerbosity(from, to, 1) /\ UNCHANGED <<queueVars, outputVars, exceptDerive>>
    \/ \E from \in Slots, to \in Slots :
          DeriveWithCtxErrVerbosity(from, to, 1)
          /\ UNCHANGED <<queueVars, outputVars, exceptDerive>>
    \/ \E from \in Slots, to \in Slots :
          DeriveWithTime(from, to, ZeroTime + 1) /\ UNCHANGED <<queueVars, outputVars, exceptDerive>>
    \/ \E from \in Slots, to \in Slots :
          DeriveWithoutTime(from, to) /\ UNCHANGED <<queueVars, outputVars, exceptDerive>>
    \/ \E from \in Slots, to \in Slots :
          DeriveWithPrefix(from, to, <<"p">>) /\ UNCHANGED <<queueVars, outputVars, exceptDerive>>
    \/ \E from \in Slots, to \in Slots :
          DeriveWithSuffix(from, to, <<"s">>) /\ UNCHANGED <<queueVars, outputVars, exceptDerive>>
    \/ \E from \in Slots, to \in Slots, spare \in {0, 1} :
          DeriveWithFields(from, to, spare) /\ UNCHANGED <<queueVars, outputVars, exceptDerive>>
    \/ \E r \in Slots :
          DeriveSetSeverity(r, SeverityDebug) /\ UNCHANGED <<queueVars, outputVars, exceptDerive>>
    \/ \E r \in Slots :
          DeriveSetVerbose(r, 0) /\ UNCHANGED <<queueVars, outputVars, exceptDerive>>

\* SpecDerive: one goroutine deriving Loggers from its two variables, into
\* either of them, and calling setters on them
InitSpecDerive ==
    /\ InitDerive
    /\ logger = Nil /\ exited = FALSE /\ handed = <<>> /\ ret = "none"
    /\ NewQueuedOutput(0) /\ IdleOutput /\ IdleMulti /\ IdleSeverity /\ IdleWait
    /\ IdleError /\ IdleChain /\ IdleJSON
    /\ IdleFinal

SpecDerive == InitSpecDerive /\ [][NextDerive]_vars

\* what a Logger variable shows: every field of its Logger, the fields slice
\* by its elements
View(r) ==
    IF loggers[r] = Nil THEN Nil
    ELSE [loggers[r] EXCEPT !.fields = FieldsOf(arrays, loggers[r].fields)]

\* C11: a derivation call leaves every field of its receiver unchanged, and
\* no call -- a derivation assigned to one variable, a setter on one Logger,
\* a field appended to a Logger derived from the same parent -- changes the
\* output, thresholds, prefix, suffix, fields, pinned time or verbosity of a
\* Logger other than the one it returns or is called on.
C11_DerivedIndependent ==
    [][\A r \in Slots : r # target' => View(r)' = View(r)]_vars

\* two Loggers, each derived from the other with a field appended, hold
\* different fields
C11_Witness ==
    /\ op = "WithFields"
    /\ target = "derived"
    /\ loggers["parent"] # Nil
    /\ loggers["derived"] # Nil
    /\ Len(View("parent").fields) = 2
    /\ Len(View("derived").fields) = 3

(***************************************************************************)
(* MultiOutput (part_002:18-31).                                           *)
(*                                                                         *)
(* Log ranges over the sub-outputs and passes each the *Log it was given.  *)
(* The older revision (src/output.go:29-33) passes log.Clone() instead.    *)
(* A *Log is a number into logObjs, so that two holders of the same        *)
(* pointer see each other's changes.                                       *)
(***************************************************************************)

\* the largest number of sub-outputs given to MultiOutput
MaxOutputs == 3

\* what a sub-output does to the Log it was passed
Mutations == {"none", "message", "fields", "stack"}

\* the Logs a caller passes to Log: Message, Fields and StackTrace (log.go:8-17)
CallerLogs ==
    [Message : {<<"m", "s", "g">>},
     Fields : {<<>>, <<FieldOf(1)>>},
     StackTrace : {<<>>, <<"frame">>}]

\* log.go:19-39, Log.Clone: Message, Fields and StackTrace are copied into
\* new arrays; a Log held by value is its own copy
LogClone(log) == log

\* the argument of o1.Log in the older revision, src/output.go:31:
\* log.Clone(), a new Log object
SubLogArgCloned(objs, ptr) ==
    [ptr |-> Len(objs) + 1, objs |-> Append(objs, LogClone(objs[ptr]))]

\* the argument of o1.Log, part_002:22: log, the pointer Log was given
SubLogArg(objs, ptr) == [ptr |-> ptr, objs |-> objs]

\* a sub-output overwriting the message bytes, the fields or the stack trace
\* of the Log it holds
Mutated(log, m) ==
    CASE m = "none" -> log
      [] m = "message" ->
            [log EXCEPT !.Message = [i \in DOMAIN log.Message |-> "#"]]
      [] m = "fields" ->
            [log EXCEPT !.Fields =
                [i \in DOMAIN log.Fields |-> [Key |-> "key", Value |-> "#"]]]
      [] m = "stack" ->
            [log EXCEPT !.StackTrace = [i \in DOMAIN log.StackTrace |-> "#"]]

\* SpecMulti: MultiOutput(outputs...) with one to MaxOutputs sub-outputs,
\* and a caller about to pass its Log
InitMulti ==
    /\ outputs \in 1..MaxOutputs
    /\ \E log \in CallerLogs : logObjs = <<log>>
    /\ multiPc = [at |-> "idle", i |-> 1]
    /\ received = <<>>

\* the caller calls Log(log) with its Log, object 1
MultiLogCall ==
    /\ multiPc.at = "idle"
    /\ multiPc' = [at |-> "loop", i |-> 1]
    /\ UNCHANGED <<outputs, logObjs, received>>

\* part_002:21-23, one round of the loop: o1.Log(...) for the next
\* sub-output, which reads the Log it is passed and may change it
MultiLogSub(m) ==
    /\ multiPc.at = "loop"
    /\ multiPc.i <= outputs
    /\ LET arg == SubLogArg(logObjs, 1)
       IN /\ received' = Append(received, [out |-> multiPc.i, log |-> arg.ptr,
                                           held |-> arg.objs[arg.ptr]])
          /\ logObjs' = [arg.objs EXCEPT ![arg.ptr] = Mutated(@, m)]
    /\ multiPc' = [multiPc EXCEPT !.i = @ + 1]
    /\ UNCHANGED outputs

\* the loop is over and Log returns
MultiLogReturn ==
    /\ multiPc.at = "loop"
    /\ multiPc.i > outputs
    /\ multiPc' = [multiPc EXCEPT !.at = "returned"]
    /\ UNCHANGED <<outputs, logObjs, received>>

NextMulti ==
    \/ MultiLogCall /\ UNCHANGED <<queueVars, loggerVars, outputVars, exceptMulti>>
    \/ \E m \in Mutations :
          MultiLogSub(m) /\ UNCHANGED <<queueVars, loggerVars, outputVars, exceptMulti>>
    \/ MultiLogReturn /\ UNCHANGED <<queueVars, loggerVars, outputVars, exceptMulti>>

InitSpecMulti ==
    /\ InitMulti
    /\ NewQueuedOutput(0) /\ IdleLogger /\ IdleOutput /\ IdleDerive /\ IdleSeverity
    /\ IdleWait /\ IdleError /\ IdleChain /\ IdleJSON
    /\ IdleFinal

SpecMulti == InitSpecMulti /\ [][NextMulti]_vars

\* the sub-outputs called so far are the first ones, each once, in the
\* order given at construction
CalledOnceInOrder ==
    /\ \A k \in DOMAIN received : received[k].out = k
    /\ multiPc.at = "returned" => Len(received) = outputs

\* C12: MultiOutput.Log calls each sub-output exactly once, in the order
\* given at construction, and gives each its own deep clone of the Log: every
\* sub-output is passed a Log object of its own, holding what the caller
\* passed, and the caller's Log is as it was when Log returns, whatever the
\* sub-outputs did to the message bytes, fields or stack trace they received.
C12_EachSubOutputOwnClone ==
    /\ CalledOnceInOrder
    /\ \A k \in DOMAIN received :
          /\ received[k].log # 1
          /\ \A j \in DOMAIN received : j # k => received[j].log # received[k].log
          /\ received[k].held = received[1].held
    /\ multiPc.at = "returned" => logObjs[1] = received[1].held

\* C12, the part that holds: each sub-output is called exactly once, in the
\* order given at construction
C12_CalledOnceInOrder == CalledOnceInOrder

(***************************************************************************)
(* The severity setters and Print (part_002:590-686).                      *)
(***************************************************************************)

\* part_002:658-669
SetPrintSeverity(l, printSeverity) ==
    IF l = Nil THEN Nil
    ELSE [l EXCEPT !.printSeverity =
             IF IsValid(printSeverity) THEN printSeverity ELSE SeverityInfo]

\* part_002:675-686
SetStackTraceSeverity(l, stackTraceSeverity) ==
    IF l = Nil THEN Nil
    ELSE [l EXCEPT !.stackTraceSeverity =
             IF IsValid(stackTraceSeverity) THEN stackTraceSeverity
             ELSE SeverityNone]

\* SpecSeverity: NewLogger(output, severity, 0) with any Severity argument
InitSeverity ==
    /\ \E o \in Outputs, s \in SeverityArgs : logger = NewLogger(o, s, 0)
    /\ exited = FALSE
    /\ op = "none"
    /\ handed = <<>>
    /\ ret = "none"
    /\ printSet = <<>>

CallSetPrintSeverity(printSeverity) ==
    /\ Alive
    /\ op' = "SetPrintSeverity"
    /\ logger' = SetPrintSeverity(logger, printSeverity)
    /\ ret' = Returned(SetPrintSeverity(logger, printSeverity))
    /\ handed' = <<>>
    /\ printSet' = <<printSeverity>>
    /\ UNCHANGED exited

CallSetStackTraceSeverity(stackTraceSeverity) ==
    /\ Alive
    /\ op' = "SetStackTraceSeverity"
    /\ logger' = SetStackTraceSeverity(logger, stackTraceSeverity)
    /\ ret' = Returned(SetStackTraceSeverity(logger, stackTraceSeverity))
    /\ handed' = <<>>
    /\ UNCHANGED <<exited, printSet>>

NextSeverity ==
    \/ \E s \in SeverityArgs :
          CallSetSeverity(s)
          /\ UNCHANGED <<queueVars, outputVars, printSet, exceptSeverity>>
    \/ \E s \in SeverityArgs :
          CallSetPrintSeverity(s)
          /\ UNCHANGED <<queueVars, outputVars, exceptSeverity>>
    \/ \E s \in SeverityArgs :
          CallSetStackTraceSeverity(s)
          /\ UNCHANGED <<queueVars, outputVars, exceptSeverity>>
    \/ \E e \in Errors :
          CallPrint(e)
          /\ UNCHANGED <<queueVars, outputVars, printSet, exceptSeverity>>
    \/ \E s \in LeveledSeverities, e \in Errors :
          Emit(s, e)
          /\ UNCHANGED <<queueVars, outputVars, printSet, exceptSeverity>>

\* SpecSeverity: one goroutine calling the severity setters, Print and the
\* leveled methods of a Logger
InitSpecSeverity ==
    /\ InitSeverity
    /\ NewQueuedOutput(0) /\ IdleOutput /\ IdleDerive /\ IdleMulti /\ IdleWait
    /\ IdleError /\ IdleChain /\ IdleJSON
    /\ IdleFinal

SpecSeverity == InitSpecSeverity /\ [][NextSeverity]_vars

\* the six Severity values
SeverityValues == SeverityNone..SeverityDebug

\* what a setter called with s stores: s when it is one of the six values,
\* else the given default
Stored(s, default) == IF s \in SeverityValues THEN s ELSE default

\* C13: after any sequence of NewLogger, SetSeverity, SetPrintSeverity and
\* SetStackTraceSeverity calls with arbitrary integer arguments, the
\* Logger's severity, print severity and stack-trace severity are each one
\* of None .. Debug; an out-of-range argument stores Info for the severity
\* and the print severity and None for the stack-trace severity; the setters
\* return the Logger and nothing else (no error, no panic).
C13_SeveritiesNormalised ==
    /\ logger.severity \in SeverityValues
    /\ logger.printSeverity \in SeverityValues
    /\ logger.stackTraceSeverity \in SeverityValues
    /\ [][/\ logger'.severity \in SeverityValues
          /\ logger'.printSeverity \in SeverityValues
          /\ logger'.stackTraceSeverity \in SeverityValues
          /\ \A s \in SeverityArgs :
                /\ CallSetSeverity(s)
                   => /\ logger'.severity = Stored(s, SeverityInfo)
                      /\ ret' = "logger" /\ ~exited'
                /\ CallSetPrintSeverity(s)
                   => /\ logger'.printSeverity = Stored(s, SeverityInfo)
                      /\ ret' = "logger" /\ ~exited'
                /\ CallSetStackTraceSeverity(s)
                   => /\ logger'.stackTraceSeverity = Stored(s, SeverityNone)
                      /\ ret' = "logger" /\ ~exited']_vars

\* SetPrintSeverity was called with the value above SeverityDebug and the
\* Logger holds SeverityInfo, after SetStackTraceSeverity stored a value
C13_Witness ==
    /\ op = "SetPrintSeverity"
    /\ printSet = <<SeverityDebug + 1>>
    /\ logger.printSeverity = SeverityInfo
    /\ logger.stackTraceSeverity = SeverityError
    /\ ret = "logger"

\* the print severity the calls so far have configured: SeverityInfo until
\* SetPrintSeverity is called, then what its latest call stored
ConfiguredPrintSeverity ==
    IF printSet = <<>> THEN SeverityInfo ELSE Stored(printSet[1], SeverityInfo)

\* C16: Print, Printf and Println emit a Log whose Severity is the print
\* severity configured at call time -- Info by default, the value of the
\* last SetPrintSeverity call afterwards (Info when that value was out of
\* range) -- and are gated by the severity threshold like a leveled call at
\* that severity: for a Logger with a non-nil output whose call passes the
\* verbosity gates, exactly one Log is handed to the output when the
\* threshold >= the print severity, and none otherwise.
C16_PrintUsesPrintSeverity ==
    [][\A e \in Errors :
          (/\ logger.output # "nil"
           /\ logger.verbosity <= logger.verbose
           /\ (e = "ctx" => logger.ctxErrVerbosity <= logger.verbose)
           /\ CallPrint(e))
          => IF logger.severity >= ConfiguredPrintSeverity
             THEN HandedOne(ConfiguredPrintSeverity)
             ELSE handed' = <<>>]_vars

\* after SetPrintSeverity(SeverityError), Print on a Logger whose threshold
\* is SeverityError has handed a Log with Severity SeverityError
C16_Witness ==
    /\ op = "Print"
    /\ printSet = <<SeverityError>>
    /\ logger.severity = SeverityError
    /\ handed = <<[Severity |-> SeverityError, Verbosity |-> 0]>>

(***************************************************************************)
(* QueuedOutput.WaitForEmpty (src/output.go:108-120).                      *)
(*                                                                         *)
(* Only the older revision of output.go has WaitForEmpty; its QueuedOutput *)
(* (src/output.go:38-133) has no closing flag and no WaitGroups: Log       *)
(* returns at once when the context of Close is done and otherwise sends   *)
(* as the newer Log does, and the worker receives a log and passes it to   *)
(* the wrapped Output, which is what WorkerRecv and WorkerDeliver do.      *)
(* SpecWait runs this revision, never closed.                              *)
(***************************************************************************)

\* src/output.go:70-88, Log on a QueuedOutput that is not closed: a blocking
\* call waits for the send, a non-blocking one drops the log when the send
\* cannot proceed
WaitLog ==
    /\ nextId <= MaxLogs
    /\ nextId' = nextId + 1
    /\ IF CanSend
         THEN ChanSend(nextId)
         ELSE /\ blocking = 0
              /\ UNCHANGED <<queue, worker, workerLog, enqueued>>
    /\ UNCHANGED <<queueLen, queueClosed, closing, logWg, wg, blocking,
                   onQueueFull, pcLog, pcClose, panicked, delivered, call,
                   lateFrom, won, workerExits>>
    /\ UNCHANGED waitVars

\* WaitForEmpty(ctx) is called
WaitForEmptyCall ==
    /\ pcWait = "idle"
    /\ pcWait' = "select"
    /\ waitBefore' = enqueued
    /\ UNCHANGED <<ctxDone, queueVars>>

\* the deadline of ctx passes, or ctx is cancelled
ContextEnds ==
    /\ ~ctxDone
    /\ ctxDone' = TRUE
    /\ UNCHANGED <<pcWait, waitBefore, queueVars>>

\* src/output.go:112-113: case <-ctx.Done(): return ctx.Err()
WaitCtxDone ==
    /\ pcWait = "select"
    /\ ctxDone
    /\ pcWait' = "err"
    /\ UNCHANGED <<ctxDone, waitBefore, queueVars>>

\* src/output.go:114-117: the 50 ms timer fires; return nil when
\* len(q.queue) == 0, else go round the loop
WaitTimer ==
    /\ pcWait = "select"
    /\ pcWait' = IF Len(queue) = 0 THEN "nil" ELSE "select"
    /\ UNCHANGED <<ctxDone, waitBefore, queueVars>>

NextWait ==
    \/ WaitLog /\ UNCHANGED <<loggerVars, outputVars, exceptWait>>
    \/ WorkerRecv
       /\ UNCHANGED <<loggerVars, outputVars, waitVars, exceptWait>>
    \/ WorkerDeliver
       /\ UNCHANGED <<loggerVars, outputVars, waitVars, exceptWait>>
    \/ WaitForEmptyCall
       /\ UNCHANGED <<loggerVars, outputVars, exceptWait>>
    \/ ContextEnds
       /\ UNCHANGED <<loggerVars, outputVars, exceptWait>>
    \/ WaitCtxDone
       /\ UNCHANGED <<loggerVars, outputVars, exceptWait>>
    \/ WaitTimer
       /\ UNCHANGED <<loggerVars, outputVars, exceptWait>>

\* SpecWait: NewQueuedOutput(output, n).SetBlocking(b); goroutines call Log
\* and one calls WaitForEmpty
InitSpecWait ==
    /\ \E n \in 0..MaxQueueLen, b \in {0, 1} : Configured(n, b, "unset")
    /\ IdleWait
    /\ IdleLogger /\ IdleOutput /\ IdleDerive /\ IdleMulti /\ IdleSeverity
    /\ IdleError /\ IdleChain /\ IdleJSON
    /\ IdleFinal

SpecWait == InitSpecWait /\ [][NextWait]_vars

\* C14: when WaitForEmpty returns nil, every log enqueued before the call
\* began has been delivered to and processed by the wrapped Output; when it
\* returns an error, the context has ended and the error is the context's.
C14_WaitForEmptyFlushes ==
    /\ pcWait = "nil" => \A k \in DOMAIN waitBefore :
                              \E d \in DOMAIN delivered :
                                  delivered[d] = waitBefore[k]
    /\ pcWait = "err" => ctxDone

\* C14, the part that holds: WaitForEmpty returns an error only when the
\* context has ended, and returns nil only after it saw the queue empty:
\* every log enqueued before the call has left the queue
C14_WaitForEmptySeesEmptyQueue ==
    /\ pcWait = "nil" => \A k \in DOMAIN waitBefore :
                              \A i \in DOMAIN queue : queue[i] # waitBefore[k]
    /\ pcWait = "err" => ctxDone

(***************************************************************************)
(* Errors inside Log of TextOutput and JSONOutput (part_002:134-268,       *)
(* jsonoutput.go:33-172).                                                  *)
(*                                                                         *)
(* Log keeps the error of json.Marshal or of io.Copy(o.w, buf) in err and  *)
(* returns; the function deferred first (it runs last, after RUnlock)      *)
(* reads o.onError and calls it with err.  One goroutine calls Log and     *)
(* SetOnError here.                                                        *)
(***************************************************************************)

\* what goes wrong in a Log call: nothing, json.Marshal returns an error
\* (JSONOutput only: TextOutput marshals nothing), or the writer's Write
\* returns an error or writes short
Faults(k) == IF k = "json" THEN {"none", "marshal", "write"} ELSE {"none", "write"}

\* err when Log returns (part_002:262-266, jsonoutput.go:146-170)
LogErr(fault) == IF fault = "none" THEN "nil" ELSE fault

\* a variant of OnErrorCalls that does not look at err
OnErrorCallsAlways(h, err) == IF h = "fn" THEN 1 ELSE 0

\* part_002:136-142, jsonoutput.go:35-41: the deferred function calls
\* (*onError)(err) unless err, the pointer or the function is nil; the
\* number of calls made
OnErrorCalls(h, err) == IF err = "nil" \/ h # "fn" THEN 0 ELSE 1

\* SpecError: NewTextOutput(w, flags) or NewJSONOutput(w, flags)
InitError ==
    /\ kind \in Kinds
    /\ mu = [readers |-> {}, writer |-> "none"]
    /\ flags = 0
    /\ pcOut = [p \in Producers |-> "idle"]
    /\ buf = [p \in Producers |-> <<>>]
    /\ pcSet = "idle"
    /\ setArg = 0
    /\ sink = <<>>
    /\ nextRec = 1
    /\ onError = "unset"
    /\ reported = <<>>

\* o.Log(log), the whole call: the record reaches the writer unless the
\* call fails, the deferred function reports err, and Log returns
ErrorLog(fault) ==
    /\ nextRec <= MaxLogs
    /\ fault \in Faults(kind)
    /\ nextRec' = nextRec + 1
    /\ sink' = IF fault = "none" THEN Append(sink, nextRec) ELSE sink
    /\ reported' = reported \o
                     [i \in 1..OnErrorCalls(onError, LogErr(fault)) |->
                         [log |-> nextRec, err |-> LogErr(fault)]]
    /\ UNCHANGED <<kind, mu, flags, pcOut, buf, pcSet, setArg, onError>>

\* part_002:290-293, jsonoutput.go:194-197, SetOnError(f): a pointer to f is
\* stored, f nil or not
CallSetOnError(f) ==
    /\ onError # f
    /\ onError' = f
    /\ UNCHANGED <<outputVars, reported>>

NextError ==
    \/ \E fault \in {"none", "marshal", "write"} :
          ErrorLog(fault)
          /\ UNCHANGED <<queueVars, loggerVars, exceptError>>
    \/ \E f \in {"nilfn", "fn"} :
          CallSetOnError(f)
          /\ UNCHANGED <<queueVars, loggerVars, exceptError>>

InitSpecError ==
    /\ InitError
    /\ NewQueuedOutput(0) /\ IdleLogger /\ IdleDerive /\ IdleMulti
    /\ IdleSeverity /\ IdleWait /\ IdleChain /\ IdleJSON
    /\ IdleFinal

SpecError == InitSpecError /\ [][NextError]_vars

\* C15: when marshalling or the writer's Write fails inside Log, the error is
\* reported to the onError hook exactly once if a non-nil hook is set and
\* dropped otherwise; Log returns without the error, onError is not called
\* for a successful write, and a Log call that does not fail writes its
\* record whatever failed before it.
C15_ErrorsGoToOnError ==
    [][\A fault \in {"none", "marshal", "write"} :
          ErrorLog(fault)
          => /\ reported' =
                  IF fault # "none" /\ onError = "fn"
                  THEN Append(reported, [log |-> nextRec, err |-> fault])
                  ELSE reported
             /\ sink' = IF fault = "none" THEN Append(sink, nextRec) ELSE sink
             /\ nextRec' = nextRec + 1]_vars

\* a Log call whose write failed was reported once to the hook, and the
\* next Log call wrote its record
C15_Witness ==
    /\ onError = "fn"
    /\ reported = <<[log |-> 1, err |-> "write"]>>
    /\ sink = <<2>>
    /\ nextRec = 3

(***************************************************************************)
(* A chain of derivations and the Logs it emits (part_002:417-528,         *)
(* 713-770).                                                               *)
(*                                                                         *)
(* One goroutine goes on with the Logger each WithPrefix, WithSuffix,      *)
(* WithTime or WithoutTime call returns and calls the leveled methods on   *)
(* it.  The Logger starts as the default Logger of the package-level       *)
(* functions does (part_001:23), or with the threshold SeverityNone.  A    *)
(* Fatal call is two steps: l.log returns, then os.Exit(1).  The wall      *)
(* clock advances by one with every call.                                  *)
(***************************************************************************)

\* the texts given to WithPrefix and WithSuffix, and the messages the emit
\* calls format: sequences of characters
Texts == {<<"a">>, <<"b">>, <<"\n">>}
Messages == {<<>>, <<"m">>, <<"m", "\n">>}

\* time.Now() (part_002:458)
Now == calls + 1

\* a variant of TrimNewline that cuts off every '\n' at the end
RECURSIVE TrimNewlines(_)
TrimNewlines(text) ==
    IF Len(text) > 0 /\ text[Len(text)] = "\n"
    THEN TrimNewlines(SubSeq(text, 1, Len(text) - 1)) ELSE text

\* part_002:451-453: one '\n' at the end of the message is cut off
TrimNewline(text) ==
    IF Len(text) > 0 /\ text[Len(text)] = "\n"
    THEN SubSeq(text, 1, Len(text) - 1) ELSE text

\* the time of a Log as the older revision sets it (src/logger.go:61-95):
\* the pinned time unless it is the zero time
LogTimeUnlessZero(l, now) ==
    IF l.time # <<>> /\ l.time[1] # ZeroTime THEN l.time[1] ELSE now

\* part_002:455-459: *l.time when l.time is not nil, else time.Now()
LogTime(l, now) == IF l.time # <<>> THEN l.time[1] ELSE now

\* the frames of the calling goroutine from the caller of the Logger's
\* method upwards, which is where the skip of 5 begins (part_002:467)
CallerFrames == <<"main.f", "main.main", "runtime.main">>

\* the largest number of program counters out asks for (part_002:465)
FullStack == 64

\* ProgramCounters(size, 5) and NewStackTrace (part_002:467-468,
\* src/stack.go:442-463, 543-547): at most size of the frames
StackOf(size) ==
    SubSeq(CallerFrames, 1, IF size < Len(CallerFrames) THEN size ELSE Len(CallerFrames))

\* a variant of IncludeStackTrace that leaves the threshold itself out
IncludeStackTraceBelow(l, severity) == l.stackTraceSeverity > severity

\* part_002:461, includeStackTrace
IncludeStackTrace(l, severity) == l.stackTraceSeverity >= severity

\* part_002:470-472: st.Caller(0) when there is a frame, else the zero value
StackCallerOf(st) == IF Len(st) > 0 THEN st[1] ELSE ""

\* part_002:474-476: st when the stack trace is included, else nil
StackTraceOf(l, severity) ==
    IF IncludeStackTrace(l, severity)
    THEN [nil |-> FALSE, callers |-> StackOf(FullStack)]
    ELSE [nil |-> TRUE, callers |-> <<>>]

\* part_002:417-479, out, with the message, the time and the stack of the Log
OutLog(l, severity, message, err, now) ==
    IF Out(l, severity, err) = <<>> THEN <<>>
    ELSE <<[Severity |-> severity,
            Verbosity |-> l.verbosity,
            Message |-> TrimNewline(l.prefix \o message \o l.suffix),
            Time |-> LogTime(l, now),
            StackCaller |-> StackCallerOf(StackOf(IF IncludeStackTrace(l, severity)
                                                  THEN FullStack ELSE 1)),
            StackTrace |-> StackTraceOf(l, severity)]>>

\* a variant of Exits in which Error calls end the process too
ExitsUpToError(severity) == severity \in {SeverityFatal, SeverityError}

\* part_002:513-528, part_001:37-52: the methods that call os.Exit(1) after
\* l.log are Fatal, Fatalf and Fatalln
Exits(severity) == severity = SeverityFatal

InitChain ==
    /\ \E s \in {SeverityNone, SeverityInfo} : logger = NewLogger("out", s, 0)
    /\ exited = FALSE
    /\ op = "none"
    /\ handed = <<>>
    /\ ret = "none"
    /\ calls = 0
    /\ pcFatal = "idle"
    /\ exitCode = <<>>
    /\ prefixes = <<>>
    /\ suffixes = <<>>
    /\ pinned = <<>>

\* l = l.<method>(...): the caller goes on with the Logger returned
ChainDerive(method, l) ==
    /\ Alive
    /\ pcFatal = "idle"
    /\ calls < MaxCalls
    /\ calls' = calls + 1
    /\ logger' = l
    /\ op' = method
    /\ handed' = <<>>
    /\ ret' = Returned(l)
    /\ UNCHANGED <<exited, pcFatal, exitCode>>

ChainWithPrefix(text) ==
    /\ ChainDerive("WithPrefix", WithPrefix(logger, text))
    /\ prefixes' = Append(prefixes, text)
    /\ UNCHANGED <<suffixes, pinned>>

ChainWithSuffix(text) ==
    /\ ChainDerive("WithSuffix", WithSuffix(logger, text))
    /\ suffixes' = Append(suffixes, text)
    /\ UNCHANGED <<prefixes, pinned>>

ChainWithTime(tm) ==
    /\ ChainDerive("WithTime", WithTime(logger, tm))
    /\ pinned' = <<tm>>
    /\ UNCHANGED <<prefixes, suffixes>>

ChainWithoutTime ==
    /\ ChainDerive("WithoutTime", WithoutTime(logger))
    /\ pinned' = <<>>
    /\ UNCHANGED <<prefixes, suffixes>>

\* l.SetStackTraceSeverity(severity): the Logger of the chain is changed in
\* place (part_002:675-686)
ChainSetStackTraceSeverity(severity) ==
    /\ ChainDerive("SetStackTraceSeverity", SetStackTraceSeverity(logger, severity))
    /\ UNCHANGED <<prefixes, suffixes, pinned>>

\* l.Fatal .. l.Debug and their f / ln forms (part_002:513-588), up to the
\* return of l.log / logf / logln
ChainLog(severity, message) ==
    /\ Alive
    /\ pcFatal = "idle"
    /\ calls < MaxCalls
    /\ calls' = calls + 1
    /\ op' = IF severity = SeverityFatal THEN "Fatal" ELSE "Emit"
    /\ handed' = OutLog(logger, severity, message, "nil", Now)
    /\ ret' = "none"
    /\ pcFatal' = IF Exits(severity) THEN "exit" ELSE "idle"
    /\ UNCHANGED <<logger, exited, exitCode, prefixes, suffixes, pinned>>

\* os.Exit(1) (part_002:515, 521, 527)
ChainExit ==
    /\ Alive
    /\ pcFatal = "exit"
    /\ exited' = TRUE
    /\ exitCode' = <<1>>
    /\ UNCHANGED <<logger, op, handed, ret, calls, pcFatal, prefixes, suffixes,
                   pinned>>

NextChain ==
    \/ \E text \in Texts :
          ChainWithPrefix(text) /\ UNCHANGED <<queueVars, outputVars, exceptChain>>
    \/ \E text \in Texts :
          ChainWithSuffix(text) /\ UNCHANGED <<queueVars, outputVars, exceptChain>>
    \/ \E tm \in Times :
          ChainWithTime(tm) /\ UNCHANGED <<queueVars, outputVars, exceptChain>>
    \/ ChainWithoutTime /\ UNCHANGED <<queueVars, outputVars, exceptChain>>
    \/ \E s \in SeverityArgs :
          ChainSetStackTraceSeverity(s) /\ UNCHANGED <<queueVars, outputVars, exceptChain>>
    \/ \E s \in SeverityFatal..SeverityDebug, m \in Messages :
          ChainLog(s, m) /\ UNCHANGED <<queueVars, outputVars, exceptChain>>
    \/ ChainExit /\ UNCHANGED <<queueVars, outputVars, exceptChain>>

InitSpecChain ==
    /\ InitChain
    /\ loggers = [r \in Slots |-> Nil] /\ arrays = <<>> /\ target = "none"
    /\ NewQueuedOutput(0) /\ IdleOutput
    /\ IdleMulti /\ IdleSeverity /\ IdleWait /\ IdleError /\ IdleJSON
    /\ IdleFinal

SpecChain == InitSpecChain /\ [][NextChain]_vars

\* the goroutine that has come back from l.log in Fatal goes on to os.Exit
FairSpecChain ==
    /\ SpecChain
    /\ WF_vars(ChainExit /\ UNCHANGED <<queueVars, outputVars, exceptChain>>)

\* the concatenation of a sequence of texts
RECURSIVE Flatten(_)
Flatten(texts) ==
    IF texts = <<>> THEN <<>> ELSE Head(texts) \o Flatten(Tail(texts))

Reverse(texts) == [i \in 1..Len(texts) |-> texts[Len(texts) + 1 - i]]

\* P1 + ... + Pn + M + Sm + ... + S1 for the chain so far
Composed(m) == Flatten(prefixes) \o m \o Flatten(Reverse(suffixes))

\* C17 (as stated): for any chain of derivations the emitted message is
\* P1+P2+...+Pn + M + Sm+...+S2+S1, Pi the WithPrefix texts in call order and
\* Sj the WithSuffix texts in call order.
C17_MessageComposed ==
    [][\A s \in SeverityFatal..SeverityDebug, m \in Messages :
          (ChainLog(s, m) /\ handed' # <<>>)
          => handed'[1].Message = Composed(m)]_vars

\* C17 (amended): the emitted message is P1+...+Pn + M + Sm+...+S1 with one
\* newline cut off its end when it ends in a newline.
C17_MessageComposedTrimmed ==
    [][\A s \in SeverityFatal..SeverityDebug, m \in Messages :
          (ChainLog(s, m) /\ handed' # <<>>)
          => handed'[1].Message = TrimNewline(Composed(m))]_vars

\* WithSuffix("a").WithSuffix("b") and a call with the message "m" have
\* emitted "mba"
C17_Witness ==
    /\ op = "Emit"
    /\ suffixes = << <<"a">>, <<"b">> >>
    /\ handed # <<>>
    /\ handed[1].Message = <<"m", "b", "a">>

\* C18: a Logger derived with WithTime(t) stamps every Log it emits with t,
\* the zero time included, and so does every Logger derived from it until
\* WithoutTime; a Logger with no pinned time stamps the wall-clock time of the
\* emission.
C18_PinnedTime ==
    [][\A s \in SeverityFatal..SeverityDebug, m \in Messages :
          (ChainLog(s, m) /\ handed' # <<>>)
          => handed'[1].Time = IF pinned # <<>> THEN pinned[1] ELSE Now]_vars

\* a Logger derived with WithTime(zero time) and then WithPrefix has emitted
\* a Log stamped with the zero time
C18_Witness ==
    /\ op = "Emit"
    /\ pinned = <<ZeroTime>>
    /\ prefixes # <<>>
    /\ handed # <<>>
    /\ handed[1].Time = ZeroTime

\* C19: every Fatal, Fatalf or Fatalln call ends the process with exit code
\* 1, and only after its emission step has returned, the Log handed to the
\* output when it passes the gates; no call at another severity ends the
\* process.
C19_FatalExitsAfterLog ==
    /\ [][/\ (exited' /\ ~exited)
             => /\ op = "Fatal"
                /\ pcFatal = "exit"
                /\ exitCode' = <<1>>
                /\ handed' = handed
                /\ ~Gated(logger, SeverityFatal, "nil")
                   => Len(handed) = 1 /\ handed[1].Severity = SeverityFatal
          /\ \A s \in LeveledSeverities, m \in Messages :
                ChainLog(s, m) => ~exited' /\ pcFatal' = "idle"]_vars
    /\ [](op = "Fatal" => <>(exited /\ exitCode = <<1>>))

\* a Fatal call has handed its Log to the output and has then ended the
\* process with exit code 1
C19_Witness ==
    /\ exited
    /\ exitCode = <<1>>
    /\ op = "Fatal"
    /\ handed # <<>>
    /\ handed[1].Severity = SeverityFatal

(***************************************************************************)
(* The fields of a Log in JSONOutput (jsonoutput.go:129-165).              *)
(*                                                                         *)
(* With JSONOutputFlagFields set, Log gives every field a key, "_" + Key,  *)
(* or index + "_" + Key when that key is already in fieldsMap, and writes  *)
(* each key and value with json.Marshal(map[string]string{key: value})     *)
(* after the members of data.  Strings are sequences of characters; the    *)
(* characters "xFF" and "xFE" stand for two bytes that are not valid UTF-8 *)
(* and "uFFFD" for the replacement character, which is what json.Marshal   *)
(* writes for either.                                                      *)
(***************************************************************************)

\* the largest number of fields of the Log
MaxFields == 3

\* the field keys tried
Keys == {<<"k">>, <<"1", "_", "k">>, <<"_", "k">>, <<"message">>,
         <<"xFF">>, <<"xFE">>}

\* the keys of the members of data (jsonoutput.go:46-56)
BuiltinKeys == {<<"severity">>, <<"message">>, <<"time">>, <<"timestamp">>,
                <<"severity_level">>, <<"verbosity">>, <<"func">>, <<"file">>,
                <<"stack_trace">>}

InvalidBytes == {"xFF", "xFE"}

Digits == <<"0", "1", "2", "3", "4", "5", "6", "7", "8", "9">>

\* %d of a non-negative int
RECURSIVE Decimal(_)
Decimal(n) ==
    IF n < 10 THEN <<Digits[n + 1]>>
    ELSE Decimal(n \div 10) \o <<Digits[(n % 10) + 1]>>

\* jsonoutput.go:133, fmt.Sprintf("_%s", field.Key)
FieldKey(key) == <<"_">> \o key

\* jsonoutput.go:135, fmt.Sprintf("%d_%s", idx, field.Key)
IndexedKey(idx, key) == Decimal(idx) \o <<"_">> \o key

\* jsonoutput.go:130-141: the keys put into fieldsKvs for the first n fields
RECURSIVE FieldsKeys(_, _)
FieldsKeys(fields, n) ==
    IF n = 0 THEN <<>>
    ELSE LET before == FieldsKeys(fields, n - 1)
             key == FieldKey(fields[n].Key)
         IN Append(before,
                   IF \E i \in DOMAIN before : before[i] = key
                   THEN IndexedKey(n - 1, fields[n].Key) ELSE key)

\* a string as json.Marshal writes it: a byte that is not valid UTF-8 becomes
\* the replacement character
JSONString(text) ==
    [i \in DOMAIN text |-> IF text[i] \in InvalidBytes THEN "uFFFD" ELSE text[i]]

\* jsonoutput.go:152-163: the keys of the entries written after the members
\* of data, in order
RenderedKeys(fields) ==
    [i \in DOMAIN fields |-> JSONString(FieldsKeys(fields, Len(fields))[i])]

\* SpecJSON: a Log with up to MaxFields fields, keys from Keys
InitJSON ==
    /\ \E n \in 0..MaxFields :
          \E keys \in [1..n -> Keys] :
              logFields = [i \in 1..n |-> [Key |-> keys[i], Value |-> i]]
    /\ rendered = <<>>

\* o.Log(log) with JSONOutputFlagFields set
JSONLog ==
    /\ rendered = <<>>
    /\ rendered' = RenderedKeys(logFields)
    /\ UNCHANGED logFields

NextJSON ==
    JSONLog /\ UNCHANGED <<queueVars, loggerVars, outputVars, exceptJSON>>

InitSpecJSON ==
    /\ InitJSON
    /\ NewQueuedOutput(0) /\ IdleLogger /\ IdleOutput
    /\ IdleDerive /\ IdleMulti /\ IdleSeverity /\ IdleWait /\ IdleError
    /\ IdleChain
    /\ IdleFinal

SpecJSON == InitSpecJSON /\ [][NextJSON]_vars

\* C20: for every field list, JSONOutput with the fields flag renders one
\* top-level key per field, and no two fields of the same log get the same
\* rendered key nor the key of a built-in member.
C20_RenderedKeysDistinct ==
    rendered # <<>>
    => /\ Len(rendered) = Len(logFields)
       /\ \A i, j \in DOMAIN rendered : i # j => rendered[i] # rendered[j]
       /\ \A i \in DOMAIN rendered : rendered[i] \notin BuiltinKeys

\* C20, the part that holds: one entry per field, under "_k" for the first
\* field with key k and under "<index>_k" for a later field whose "_k" is
\* taken; the keys handed to json.Marshal are pairwise distinct, and no
\* rendered key is the key of a built-in member.
C20_MarshalledKeysDistinct ==
    rendered # <<>>
    => LET keys == FieldsKeys(logFields, Len(logFields))
       IN /\ Len(rendered) = Len(logFields)
          /\ \A i, j \in DOMAIN keys : i # j => keys[i] # keys[j]
          /\ \A i \in DOMAIN keys :
                keys[i] = IF \E j \in 1..(i - 1) :
                                 keys[j] = <<"_">> \o logFields[i].Key
                          THEN Decimal(i - 1) \o <<"_">> \o logFields[i].Key
                          ELSE <<"_">> \o logFields[i].Key
          /\ \A i \in DOMAIN rendered : rendered[i] \notin BuiltinKeys

(***************************************************************************)
(* Severity.MarshalText / UnmarshalText (src/severity.go:49-95)            *)
(*                                                                         *)
(* A text is a sequence of runes.  The runes of the model are the capital  *)
(* and small ASCII letters of the six names, the digit 1, the space, and   *)
(* the two Turkish letters U+0131 (small dotless i) and U+0130 (capital    *)
(* dotted I).                                                              *)
(***************************************************************************)

Capitals == <<"A", "B", "D", "E", "F", "G", "I", "L", "N", "O", "R", "T", "U", "W">>
Smalls == <<"a", "b", "d", "e", "f", "g", "i", "l", "n", "o", "r", "t", "u", "w">>

\* unicode.ToUpper: a small ASCII letter gives its capital; U+0131 gives the
\* ASCII I (its upper case in the Unicode tables); U+0130, the capitals and
\* the runes that are no letters are kept
ToUpperRune(c) ==
    IF \E i \in DOMAIN Smalls : Smalls[i] = c
    THEN Capitals[CHOOSE i \in DOMAIN Smalls : Smalls[i] = c]
    ELSE IF c = "U+0131" THEN "I" ELSE c

\* severity.go:78, strings.ToUpper: every rune mapped by unicode.ToUpper
ToUpper(text) == [i \in DOMAIN text |-> ToUpperRune(text[i])]

\* the texts of severity.go:56-68 (and 79-90), in the order of the values
SeverityNames ==
    <<<<"N", "O", "N", "E">>, <<"F", "A", "T", "A", "L">>,
      <<"E", "R", "R", "O", "R">>, <<"W", "A", "R", "N", "I", "N", "G">>,
      <<"I", "N", "F", "O">>, <<"D", "E", "B", "U", "G">>>>

\* severity.go:51-73: the text (nil, written <<>>, with an error) and the error
MarshalText(s) ==
    IF ~IsValid(s)
    THEN [text |-> <<>>, err |-> <<"ErrInvalidSeverity">>]
    ELSE [text |-> CASE s = SeverityNone -> SeverityNames[1]
                     [] s = SeverityFatal -> SeverityNames[2]
                     [] s = SeverityError -> SeverityNames[3]
                     [] s = SeverityWarning -> SeverityNames[4]
                     [] s = SeverityInfo -> SeverityNames[5]
                     [] s = SeverityDebug -> SeverityNames[6],
          err |-> <<>>]

\* severity.go:77-95: the value of *s after the call, and the error
UnmarshalText(s, text) ==
    LET str == ToUpper(text)
    IN CASE str = SeverityNames[1] -> [s |-> SeverityNone, err |-> <<>>]
         [] str = SeverityNames[2] -> [s |-> SeverityFatal, err |-> <<>>]
         [] str = SeverityNames[3] -> [s |-> SeverityError, err |-> <<>>]
         [] str = SeverityNames[4] -> [s |-> SeverityWarning, err |-> <<>>]
         [] str = SeverityNames[5] -> [s |-> SeverityInfo, err |-> <<>>]
         [] str = SeverityNames[6] -> [s |-> SeverityDebug, err |-> <<>>]
         [] OTHER -> [s |-> s, err |-> <<"ErrUnknownSeverity">>]

\* the small letter of a capital
Small(c) == Smalls[CHOOSE i \in DOMAIN Capitals : Capitals[i] = c]

\* a name with its letters in every mix of capitals and small letters
InAnyCase(name) ==
    { [i \in DOMAIN name |-> IF i \in S THEN Small(name[i]) ELSE name[i]] :
        S \in SUBSET DOMAIN name }

\* a text with rune c written for every rune b
Replaced(text, b, c) == [i \in DOMAIN text |-> IF text[i] = b THEN c ELSE text[i]]

\* the mixes of letter case tried in the calls: all capitals, all small
\* letters, and one letter differing from the rest
MixedCase(name) ==
    { [i \in DOMAIN name |-> IF i \in S THEN Small(name[i]) ELSE name[i]] :
        S \in { T \in SUBSET DOMAIN name :
                   Cardinality(T) <= 1 \/ Cardinality(T) >= Len(name) - 1 } }

\* the texts given to UnmarshalText: the names in these mixes of letter
\* case; those with a Turkish i for the ASCII one; the empty text, and the
\* names cut short, followed by a digit or led by a space
TextArgs ==
    UNION { MixedCase(SeverityNames[n])
            \cup { Replaced(t, "i", "U+0131") : t \in MixedCase(SeverityNames[n]) }
            \cup { Replaced(t, "I", "U+0130") : t \in MixedCase(SeverityNames[n]) }
            \cup { SubSeq(SeverityNames[n], 1, Len(SeverityNames[n]) - 1),
                   SeverityNames[n] \o <<"1">>, <<" ">> \o SeverityNames[n] } :
            n \in DOMAIN SeverityNames }
    \cup {<<>>}

\* a Severity variable holding any of the values tried
InitText ==
    /\ sevValue \in SeverityArgs
    /\ sevOp = "none"
    /\ sevText = <<>>
    /\ sevErr = <<>>

\* text, err := s.MarshalText()
CallMarshalText ==
    /\ sevOp' = "MarshalText"
    /\ sevText' = MarshalText(sevValue).text
    /\ sevErr' = MarshalText(sevValue).err
    /\ UNCHANGED sevValue

\* err := s.UnmarshalText(text)
CallUnmarshalText(text) ==
    /\ sevOp' = "UnmarshalText"
    /\ sevText' = text
    /\ sevValue' = UnmarshalText(sevValue, text).s
    /\ sevErr' = UnmarshalText(sevValue, text).err

\* s.UnmarshalText(text) with the text MarshalText has just returned
CallUnmarshalMarshalled ==
    /\ sevOp = "MarshalText" /\ sevErr = <<>>
    /\ CallUnmarshalText(sevText)

exceptText == <<deriveVars, multiVars, severityVars, waitVars, errorVars,
                chainVars, jsonVars, padVars, lockVars, staleVars, hookVars>>

NextText ==
    \/ CallMarshalText
          /\ UNCHANGED <<queueVars, loggerVars, outputVars, exceptText>>
    \/ \E text \in TextArgs : CallUnmarshalText(text)
          /\ UNCHANGED <<queueVars, loggerVars, outputVars, exceptText>>
    \/ CallUnmarshalMarshalled
          /\ UNCHANGED <<queueVars, loggerVars, outputVars, exceptText>>

InitSpecText ==
    /\ InitText
    /\ NewQueuedOutput(0) /\ IdleLogger /\ IdleOutput
    /\ IdleDerive /\ IdleMulti /\ IdleSeverity /\ IdleWait /\ IdleError
    /\ IdleChain /\ IdleJSON /\ IdlePad /\ IdleLock /\ IdleStale /\ IdleHook

SpecText == InitSpecText /\ [][NextText]_vars

\* text is one of the six names in some letter case: it differs from a
\* name only in letters being small instead of capital
IsNameInAnyCase(text) ==
    \E n \in DOMAIN SeverityNames :
        /\ Len(text) = Len(SeverityNames[n])
        /\ \A i \in DOMAIN text :
              text[i] \in {SeverityNames[n][i], Small(SeverityNames[n][i])}

\* MarshalText of a valid severity gives its upper-case name and no error,
\* UnmarshalText of that text gives the severity back, whatever the receiver
\* held, and so does UnmarshalText of the name in any letter case;
\* MarshalText of a value outside None..Debug gives ErrInvalidSeverity
RoundTrips ==
    \A s \in SeverityArgs :
        IF IsValid(s)
        THEN /\ MarshalText(s) = [text |-> SeverityNames[s - SeverityNone + 1], err |-> <<>>]
             /\ \A r \in SeverityArgs :
                   /\ UnmarshalText(r, MarshalText(s).text) = [s |-> s, err |-> <<>>]
                   /\ \A t \in InAnyCase(SeverityNames[s - SeverityNone + 1]) :
                         UnmarshalText(r, t) = [s |-> s, err |-> <<>>]
        ELSE MarshalText(s) = [text |-> <<>>, err |-> <<"ErrInvalidSeverity">>]

\* the same of the calls made: what MarshalText returned, and the value
\* UnmarshalText left for the text MarshalText had returned
RoundTripCalls ==
    /\ sevOp' = "MarshalText"
       => /\ sevErr' = IF IsValid(sevValue) THEN <<>> ELSE <<"ErrInvalidSeverity">>
          /\ IsValid(sevValue) => sevText' = SeverityNames[sevValue - SeverityNone + 1]
    /\ CallUnmarshalMarshalled => sevValue' = sevValue /\ sevErr' = <<>>
    /\ (sevOp' = "UnmarshalText" /\ IsNameInAnyCase(sevText'))
       => /\ sevErr' = <<>>
          /\ sevText' \in InAnyCase(SeverityNames[sevValue' - SeverityNone + 1])

\* C21: for each of the six valid severities s, UnmarshalText(MarshalText(s))
\* yields s with no error and MarshalText gives the upper-case name; the six
\* names are accepted in any letter case; UnmarshalText of any other text
\* returns ErrUnknownSeverity and leaves the receiver unchanged; MarshalText
\* of a value outside None..Debug returns ErrInvalidSeverity.
C21_TextRoundTrip ==
    /\ RoundTrips
    /\ [][/\ RoundTripCalls
          /\ (sevOp' = "UnmarshalText" /\ ~IsNameInAnyCase(sevText'))
             => sevValue' = sevValue /\ sevErr' = <<"ErrUnknownSeverity">>]_vars

\* C21, the part that holds: the round trip, the upper-case names, the names
\* in any letter case, ErrInvalidSeverity, and ErrUnknownSeverity with the
\* receiver unchanged for every text that is no name in any letter case once
\* each U+0131 in it is read as an ASCII i.
C21_TextRoundTripDotless ==
    /\ RoundTrips
    /\ [][/\ RoundTripCalls
          /\ (sevOp' = "UnmarshalText"
                 /\ ~IsNameInAnyCase(Replaced(sevText', "U+0131", "i")))
             => sevValue' = sevValue /\ sevErr' = <<"ErrUnknownSeverity">>]_vars

\* C21: a Turkish dotless i has been accepted for the I of a name
C21_DotlessAccepted ==
    /\ sevOp = "UnmarshalText"
    /\ \E i \in DOMAIN sevText : sevText[i] = "U+0131"
    /\ sevErr = <<>>

(***************************************************************************)
(* The text of TextOutput.Log (src/unnamed/part_002:134-268)               *)
(*                                                                         *)
(* The Logs given have no fields and no stack trace, so the blocks of      *)
(* part_002:230-261 write nothing and their three flags are left out.      *)
(***************************************************************************)

\* part_002:299-332
TextOutputFlags ==
    {"Date", "Time", "Microseconds", "UTC", "Severity", "Padding",
     "LongFunc", "ShortFunc", "LongFile", "ShortFile"}

\* n times the rune c
Repeat(c, n) == [i \in 1..n |-> c]

\* src/utils.go:67-79, itoa: the decimal digits of i, zero-padded to wid digits
Itoa(i, wid) ==
    LET d == Decimal(i)
    IN IF Len(d) < wid THEN Repeat("0", wid - Len(d)) \o d ELSE d

\* src/utils.go:81-88, trimDirs: what follows the last '/' that is not the
\* first byte
TrimDirs(text) ==
    IF \E i \in 2..Len(text) : text[i] = "/"
    THEN SubSeq(text, 1 + CHOOSE i \in 2..Len(text) :
                             /\ text[i] = "/"
                             /\ \A j \in (i + 1)..Len(text) : text[j] # "/",
                Len(text))
    ELSE text

\* bytes.Split(text, "\n"): the pieces between the newlines, at least one
RECURSIVE Split(_)
Split(text) ==
    IF \E i \in DOMAIN text : text[i] = "\n"
    THEN LET i == CHOOSE k \in DOMAIN text :
                     text[k] = "\n" /\ \A j \in 1..(k - 1) : text[j] # "\n"
         IN <<SubSeq(text, 1, i - 1)>> \o Split(SubSeq(text, i + 1, Len(text)))
    ELSE <<text>>

\* part_002:149-178: the date and the time of the Log, as the flags ask
Stamp(fl, tm) ==
    (IF "Date" \in fl
     THEN Itoa(tm.year, 4) \o <<"/">> \o Itoa(tm.month, 2) \o <<"/">>
             \o Itoa(tm.day, 2) \o <<" ">>
     ELSE <<>>)
    \o (IF fl \cap {"Time", "Microseconds"} # {}
        THEN Itoa(tm.hour, 2) \o <<":">> \o Itoa(tm.min, 2) \o <<":">>
                \o Itoa(tm.sec, 2)
                \o (IF "Microseconds" \in fl
                    THEN <<".">> \o Itoa(tm.micro, 6) ELSE <<>>)
                \o <<" ">>
        ELSE <<>>)

\* part_002:180-183: Severity.String() (severity.go:44-47) and " - "
SeverityText(fl, severity) ==
    IF "Severity" \in fl
    THEN MarshalText(severity).text \o <<" ", "-", " ">> ELSE <<>>

\* part_002:185-188: as many spaces as the buffer holds at that point, the
\* date, the time and the severity; the function and the file are written
\* after it
PaddingOf(fl, head, callerText) ==
    IF "Padding" \in fl THEN Repeat(" ", Len(head)) ELSE <<>>

\* part_002:190-201
FuncText(fl, caller) ==
    IF fl \cap {"LongFunc", "ShortFunc"} # {}
    THEN LET fn == IF caller.Function # <<>> THEN caller.Function
                   ELSE <<"?", "?", "?">>
         IN (IF "ShortFunc" \in fl THEN TrimDirs(fn) ELSE fn)
               \o <<"(", ")", " ", "-", " ">>
    ELSE <<>>

\* part_002:203-220
FileText(fl, caller) ==
    IF fl \cap {"LongFile", "ShortFile"} # {}
    THEN (IF caller.File # <<>>
          THEN IF "ShortFile" \in fl THEN TrimDirs(caller.File) ELSE caller.File
          ELSE <<"?", "?", "?">>)
            \o <<":">> \o Itoa(IF caller.Line > 0 THEN caller.Line ELSE 0, 0)
            \o <<" ", "-", " ">>
    ELSE <<>>

\* part_002:222-228: the lines of the message, the later ones after the padding
RECURSIVE MessageLines(_, _, _)
MessageLines(lines, idx, padding) ==
    IF idx > Len(lines) THEN <<>>
    ELSE (IF idx > 1 THEN padding ELSE <<>>) \o lines[idx] \o <<"\n">>
            \o MessageLines(lines, idx + 1, padding)

\* part_002:147-266: the bytes copied to the writer
TextOf(fl, log) ==
    LET head == Stamp(fl, log.Time) \o SeverityText(fl, log.Severity)
        callerText == FuncText(fl, log.StackCaller) \o FileText(fl, log.StackCaller)
    IN head \o callerText
          \o MessageLines(Split(log.Message), 1, PaddingOf(fl, head, callerText))

\* the StackCaller of a Log: the zero value, or a frame
StackCallers ==
    {[Function |-> <<>>, File |-> <<>>, Line |-> 0],
     [Function |-> <<"a", "/", "b", ".", "F">>,
      File |-> <<"/", "a", "/", "b", ".", "g", "o">>, Line |-> 23]}

\* the Logs given to TextOutput.Log: one line, two lines, and three lines
\* of which the second is empty and the third begins with a space
TextLogs ==
    [Message : {<<"m">>, <<"m", "\n", "n">>, <<"m", "\n", "\n", " ", "n">>},
     Severity : {SeverityInfo, SeverityWarning},
     Time : {[year |-> 2019, month |-> 11, day |-> 3, hour |-> 21, min |-> 6,
              sec |-> 24, micro |-> 123]},
     StackCaller : StackCallers]

\* NewTextOutput(w, flags) and the Log passed to it
InitPad ==
    /\ padFlags \in SUBSET TextOutputFlags
    /\ padLog \in TextLogs
    /\ padOut = <<>>

\* o.Log(log), the writer taking every byte
TextLogCall ==
    /\ padOut = <<>>
    /\ padOut' = TextOf(padFlags, padLog)
    /\ UNCHANGED <<padFlags, padLog>>

exceptPad == <<deriveVars, multiVars, severityVars, waitVars, errorVars,
               chainVars, jsonVars, textVars, lockVars, staleVars, hookVars>>

NextPad ==
    TextLogCall /\ UNCHANGED <<queueVars, loggerVars, outputVars, exceptPad>>

InitSpecPad ==
    /\ InitPad
    /\ NewQueuedOutput(0) /\ IdleLogger /\ IdleOutput
    /\ IdleDerive /\ IdleMulti /\ IdleSeverity /\ IdleWait /\ IdleError
    /\ IdleChain /\ IdleJSON /\ IdleText /\ IdleLock /\ IdleStale /\ IdleHook

SpecPad == InitSpecPad /\ [][NextPad]_vars

\* the lines written and the lines of the message
OutLines == Split(padOut)
LogLines == Split(padLog.Message)

\* the number of characters written before the message text on the first line
BeforeMessage == Len(OutLines[1]) - Len(LogLines[1])

\* every continuation line is written after n spaces
IndentedBy(n) ==
    /\ Len(OutLines) = Len(LogLines) + 1
    /\ OutLines[1] = SubSeq(OutLines[1], 1, BeforeMessage) \o LogLines[1]
    /\ \A i \in 2..Len(LogLines) : OutLines[i] = Repeat(" ", n) \o LogLines[i]

\* C22: with the padding flag, every continuation line of a multi-line
\* message is indented by exactly the number of characters written before
\* the message text on the first line, for every combination of the date,
\* time, severity, function and file flags; without the padding flag the
\* continuation lines are not indented.
C22_ContinuationAligned ==
    padOut # <<>>
    => IndentedBy(IF "Padding" \in padFlags THEN BeforeMessage ELSE 0)

\* C22, the part that holds: the continuation lines are indented by the
\* length of the date, the time and the severity written on the first line,
\* which is the start of the message text when neither a function nor a
\* file flag is set; without the padding flag they are not indented.
C22_ContinuationAlignedAfterSeverity ==
    padOut # <<>>
    => /\ IndentedBy(IF "Padding" \in padFlags
                     THEN Len(Stamp(padFlags, padLog.Time))
                             + Len(SeverityText(padFlags, padLog.Severity))
                     ELSE 0)
       /\ padFlags \cap {"LongFunc", "ShortFunc", "LongFile", "ShortFile"} = {}
          => IndentedBy(IF "Padding" \in padFlags THEN BeforeMessage ELSE 0)

\* C22: a message of several lines has been written with the padding, the
\* severity and a function flag
C22_PaddedAfterFunction ==
    /\ padOut # <<>>
    /\ {"Padding", "Severity", "ShortFunc"} \subseteq padFlags
    /\ Len(LogLines) > 1

(***************************************************************************)
(* The Logger's lock l.mu (src/unnamed/part_002:417-479, 616-652)          *)
(*                                                                         *)
(* Goroutines emit through one Logger while another calls its setters.     *)
(* The Output's Log returns, or never returns (a blocking QueuedOutput     *)
(* whose queue stays full), or calls a setter of the same Logger.          *)
(***************************************************************************)

Emitters == {"e1", "e2"}
Setters == {"s1"}

OutputBehaviours == {"returns", "blocks", "setter"}

InitLock ==
    /\ \E s \in LeveledSeverities, v \in Verbosities : logger = NewLogger("out", s, v)
    /\ exited = FALSE /\ op = "none" /\ handed = <<>> /\ ret = "none"
    /\ lmu = [readers |-> {}, writer |-> "none", by |-> "none"]
    /\ pcLock = [t \in Emitters \cup Setters |-> "idle"]
    /\ outputDoes \in OutputBehaviours

\* out: l.mu.RLock() with the deferred RUnlock, the gates, and the call of
\* l.output.Log(log) for a log that passes them (part_002:422-478)
OutRLock(t, severity, err) ==
    /\ t \in Emitters /\ pcLock[t] = "idle"
    /\ CanRLock(lmu)
    /\ lmu' = [lmu EXCEPT !.readers = @ \cup {t}]
    /\ pcLock' = [pcLock EXCEPT
                     ![t] = IF Gated(logger, severity, err) THEN "unlock" ELSE "inOutput"]
    /\ UNCHANGED <<logger, outputDoes>>

\* l.output.Log(log) returns
OutputLogReturns(t) ==
    /\ pcLock[t] = "inOutput" /\ outputDoes = "returns"
    /\ pcLock' = [pcLock EXCEPT ![t] = "unlock"]
    /\ UNCHANGED <<logger, lmu, outputDoes>>

\* out returns: the deferred l.mu.RUnlock() (part_002:423)
OutRUnlock(t) ==
    /\ pcLock[t] = "unlock"
    /\ lmu' = [lmu EXCEPT !.readers = @ \ {t}]
    /\ pcLock' = [pcLock EXCEPT ![t] = "idle"]
    /\ UNCHANGED <<logger, outputDoes>>

\* SetOutput / SetSeverity / SetVerbose, l.mu.Lock() is called (part_002:620,
\* 633, 648): by a goroutine of its own, or by the Output from inside Log
SetterLock(t) ==
    /\ \/ t \in Setters /\ pcLock[t] = "idle"
       \/ t \in Emitters /\ pcLock[t] = "inOutput" /\ outputDoes = "setter"
    /\ lmu.writer = "none"
    /\ lmu' = [lmu EXCEPT !.writer = "pending", !.by = t]
    /\ pcLock' = [pcLock EXCEPT ![t] = "setter"]
    /\ UNCHANGED <<logger, outputDoes>>

\* l.mu.Lock() returns
SetterLocked ==
    /\ lmu.writer = "pending"
    /\ CanLock(lmu)
    /\ lmu' = [lmu EXCEPT !.writer = "held"]
    /\ UNCHANGED <<logger, pcLock, outputDoes>>

\* the setter stores its argument and returns: the deferred l.mu.Unlock()
\* (part_002:621-623, 634-639, 649-651).  Nothing reads the argument before
\* this step, so it is drawn here.
SetterUnlock(l) ==
    /\ lmu.writer = "held"
    /\ logger' = l
    /\ lmu' = [lmu EXCEPT !.writer = "none", !.by = "none"]
    /\ pcLock' = [pcLock EXCEPT
                     ![lmu.by] = IF lmu.by \in Setters THEN "idle" ELSE "inOutput"]
    /\ UNCHANGED outputDoes

exceptLock == <<deriveVars, multiVars, severityVars, waitVars, errorVars,
                chainVars, jsonVars, textVars, padVars, staleVars, hookVars>>

NextLock ==
    \/ \E t \in Emitters, severity \in LeveledSeverities, err \in Errors :
          OutRLock(t, severity, err)
             /\ UNCHANGED <<queueVars, exited, op, handed, ret, outputVars, exceptLock>>
    \/ \E t \in Emitters : OutputLogReturns(t)
          /\ UNCHANGED <<queueVars, exited, op, handed, ret, outputVars, exceptLock>>
    \/ \E t \in Emitters : OutRUnlock(t)
          /\ UNCHANGED <<queueVars, exited, op, handed, ret, outputVars, exceptLock>>
    \/ \E t \in Emitters \cup Setters : SetterLock(t)
          /\ UNCHANGED <<queueVars, exited, op, handed, ret, outputVars, exceptLock>>
    \/ SetterLocked
          /\ UNCHANGED <<queueVars, exited, op, handed, ret, outputVars, exceptLock>>
    \/ \E output \in Outputs : SetterUnlock(SetOutput(logger, output))
          /\ UNCHANGED <<queueVars, exited, op, handed, ret, outputVars, exceptLock>>
    \/ \E severity \in SeverityArgs : SetterUnlock(SetSeverity(logger, severity))
          /\ UNCHANGED <<queueVars, exited, op, handed, ret, outputVars, exceptLock>>
    \/ \E verbose \in Verbosities : SetterUnlock(SetVerbose(logger, verbose))
          /\ UNCHANGED <<queueVars, exited, op, handed, ret, outputVars, exceptLock>>

InitSpecLock ==
    /\ InitLock
    /\ NewQueuedOutput(0) /\ IdleOutput
    /\ IdleDerive /\ IdleMulti /\ IdleSeverity /\ IdleWait /\ IdleError
    /\ IdleChain /\ IdleJSON /\ IdleText /\ IdlePad /\ IdleStale /\ IdleHook

SpecLock == InitSpecLock /\ [][NextLock]_vars

\* the goroutines inside Log of the Logger's Output
InOutput == {t \in Emitters : pcLock[t] \in {"inOutput", "setter"}}

\* C23: during emission the Logger's read lock is released before output.Log
\* is invoked and never held across the call into the Output, so an Output
\* whose Log blocks, or that calls a setter of the same Logger, cannot stall
\* or deadlock SetOutput, SetSeverity or SetVerbose: a call of theirs is not
\* kept waiting for l.mu by a goroutine inside output.Log.
C23_LockReleasedBeforeOutput ==
    /\ \A t \in InOutput : t \notin lmu.readers
    /\ lmu.writer = "pending" => lmu.readers \cap InOutput = {}

\* C23: a setter called by another goroutine waits for l.mu while the Output's
\* Log, which never returns, runs under the read lock
C23_SetterStalled ==
    /\ outputDoes = "blocks"
    /\ lmu.writer = "pending" /\ lmu.by \in Setters
    /\ lmu.readers \cap InOutput # {}

\* C23: the Output has called a setter of the Logger from inside Log; the
\* setter waits for the read lock its own goroutine holds
C23_SetterDeadlocked ==
    /\ outputDoes = "setter"
    /\ lmu.writer = "pending" /\ lmu.by \in Emitters
    /\ lmu.by \in lmu.readers

\* C23, what the lock does give: a setter stores its value only while no
\* goroutine is between the RLock and the RUnlock of out
C23_SettersExcludeOut ==
    [][logger' # logger => lmu.readers = {} /\ lmu.writer = "held"]_vars

(***************************************************************************)
(* Termination of QueuedOutput.Log and Close (part_002:58-88, 110-115)     *)
(***************************************************************************)

\* every goroutine inside Log or Close, and the worker, is scheduled: a step
\* of theirs that can run does run.  The wrapped Output's Log returns
\* (WorkerDeliver).  Whether and when Log and Close are called is up to the
\* callers.
FairSpecQueue ==
    /\ SpecQueue
    /\ \A p \in Producers :
          /\ WF_vars(LogCheck(p) /\ UNCHANGED <<loggerVars, outputVars, laterVars>>)
          /\ WF_vars(LogSendBlocking(p) /\ UNCHANGED <<loggerVars, outputVars, laterVars>>)
          /\ WF_vars(LogSendSelect(p) /\ UNCHANGED <<loggerVars, outputVars, laterVars>>)
          /\ WF_vars(LogDone(p) /\ UNCHANGED <<loggerVars, outputVars, laterVars>>)
          /\ WF_vars(LogDoneWake(p) /\ UNCHANGED <<loggerVars, outputVars, laterVars>>)
    /\ \A c \in Closers :
          /\ WF_vars(CloseLogWait(c) /\ UNCHANGED <<loggerVars, outputVars, laterVars>>)
          /\ WF_vars(CloseWoken(c) /\ UNCHANGED <<loggerVars, outputVars, laterVars>>)
          /\ WF_vars(CloseQueue(c) /\ UNCHANGED <<loggerVars, outputVars, laterVars>>)
          /\ WF_vars(CloseWgWait(c) /\ UNCHANGED <<loggerVars, outputVars, laterVars>>)
    /\ WF_vars(WorkerRecv /\ UNCHANGED <<loggerVars, outputVars, laterVars>>)
    /\ WF_vars(WorkerDeliver /\ UNCHANGED <<loggerVars, outputVars, laterVars>>)
    /\ WF_vars(WorkerExit /\ UNCHANGED <<loggerVars, outputVars, laterVars>>)

\* C24: provided the wrapped Output's Log always returns, every
\* QueuedOutput.Log call and every Close call eventually returns under every
\* interleaving, blocking-mode Log calls suspended on a full queue while
\* Close runs included, and the worker eventually exits after Close.
C24_CallsReturn ==
    /\ \A p \in Producers : [](pcLog[p] # "idle" => <>(pcLog[p] = "idle"))
    /\ \A c \in Closers : [](pcClose[c] # "idle" => <>(pcClose[c] = "returned"))
    /\ [](closing # 0 => <>(worker = "exited"))

\* C24, the part that holds: every Log call and every Close call returns and
\* the worker exits after Close, unless the process is ended by a panic of
\* the WaitGroup o.logWg.
C24_CallsReturnUnlessPanic ==
    /\ \A p \in Producers :
          [](pcLog[p] # "idle" => <>(pcLog[p] = "idle" \/ ~Running))
    /\ \A c \in Closers :
          [](pcClose[c] # "idle" => <>(pcClose[c] = "returned" \/ ~Running))
    /\ [](closing # 0 => <>(worker = "exited" \/ ~Running))

(***************************************************************************)
(* The caller of the wrapped Output (part_002:45-54, 72-90, 110-115)       *)
(***************************************************************************)

\* C25: the wrapped Output of a QueuedOutput is invoked only by the one
\* worker NewQueuedOutput starts: a log reaches it only in a step of the
\* worker, which hands over the one log it has received, while no producer
\* inside Log moves; there is one worker (o.wg counts no second one, and it
\* exits once), so never more than one call is in progress.
C25_OnlyWorkerCallsOutput ==
    /\ [](wg \in {0, 1} /\ workerExits <= 1 /\ workerExits = 1 - wg)
    /\ [](worker = "deliver" <=> workerLog # NoLog)
    /\ [][delivered' # delivered
          => /\ worker = "deliver" /\ worker' = "recv"
             /\ delivered' = Append(delivered, workerLog)
             /\ pcLog' = pcLog /\ call' = call /\ pcClose' = pcClose]_vars

\* C25: the worker is calling the wrapped Output, not for the first time,
\* while both producers are inside Log, one of them at its send
C25_Witness ==
    /\ worker = "deliver" /\ delivered # <<>>
    /\ \A p \in Producers : pcLog[p] # "idle"
    /\ \E p \in Producers : pcLog[p] = "send"

(***************************************************************************)
(* The context-error verbosity (part_002:425-436, 809-818)                 *)
(***************************************************************************)

\* the output, severity and verbosity gates of l let a log of severity s pass
PassesOrdinaryGates(l, s) ==
    l.output # "nil" /\ l.severity >= s /\ l.verbose >= l.verbosity

\* C26: a log whose error is or wraps context.Canceled or
\* context.DeadlineExceeded is emitted only if, besides the output, severity
\* and verbosity gates, the Logger's verbose threshold >= its context-error
\* verbosity; a log with no error or any other error is not affected by the
\* context-error verbosity; with the default context-error verbosity 0
\* context errors are gated like any other log.
C26_CtxErrGate ==
    [][\A s \in SeverityFatal..SeverityDebug, e \in Errors :
          (logger # Nil /\ EmitCall(s, e))
          => /\ e = "ctx"
                => (handed' # <<>>
                      <=> /\ PassesOrdinaryGates(logger, s)
                          /\ logger.verbose >= logger.ctxErrVerbosity)
             /\ e # "ctx" => (handed' # <<>> <=> PassesOrdinaryGates(logger, s))
             /\ logger.ctxErrVerbosity = 0
                => (handed' # <<>> <=> PassesOrdinaryGates(logger, s))
             /\ handed' # <<>> => HandedOne(s)]_vars

\* C26: a leveled call on a Logger that lets every severity pass, with its
\* verbosity within the verbose threshold, has handed over nothing: its
\* context error was held back by a context-error verbosity above the
\* threshold
C26_Witness ==
    /\ op = "Emit" /\ handed = <<>>
    /\ logger # Nil
    /\ logger.output = "out" /\ logger.severity = SeverityDebug
    /\ logger.verbosity <= logger.verbose
    /\ logger.verbose < logger.ctxErrVerbosity

(***************************************************************************)
(* The stack of an emitted Log (part_002:461-476)                          *)
(***************************************************************************)

\* C27: every emitted Log carries a full StackTrace (non-nil) iff the
\* Logger's stack-trace severity threshold >= the Log's severity, and carries
\* one caller frame, that of the caller, in either case; with the default
\* threshold None no leveled log (Fatal..Debug) carries a stack trace.
C27_StackTraceByThreshold ==
    [][\A s \in SeverityFatal..SeverityDebug, m \in Messages :
          (ChainLog(s, m) /\ handed' # <<>>)
          => /\ ~handed'[1].StackTrace.nil <=> logger.stackTraceSeverity >= s
             /\ ~handed'[1].StackTrace.nil
                => handed'[1].StackTrace.callers = CallerFrames
             /\ handed'[1].StackCaller = CallerFrames[1]
             /\ logger.stackTraceSeverity = SeverityNone
                => handed'[1].StackTrace.nil]_vars

\* C27: a Log at the stack-trace severity threshold itself has been emitted
\* with the full stack trace and the caller's frame
C27_Witness ==
    /\ op = "Emit" /\ handed # <<>>
    /\ handed[1].Severity = logger.stackTraceSeverity
    /\ ~handed[1].StackTrace.nil
    /\ Len(handed[1].StackTrace.callers) > 1
    /\ handed[1].StackCaller = CallerFrames[1]

(***************************************************************************)
(* The message of an emitted Log (part_002:438-453)                        *)
(***************************************************************************)

EndsInNewline(text) == Len(text) > 0 /\ text[Len(text)] = "\n"

\* C28: the message of every emitted Log is prefix + M + suffix with exactly
\* one trailing newline removed when that concatenation ends in a newline:
\* never more than one newline is removed, nothing else is altered, and a
\* newline at the end of M is kept when a non-empty suffix follows it.
C28_OneNewlineTrimmed ==
    [][\A s \in SeverityFatal..SeverityDebug, m \in Messages :
          (ChainLog(s, m) /\ handed' # <<>>)
          => LET whole == logger.prefix \o m \o logger.suffix
                 message == handed'[1].Message
             IN /\ Len(message) = Len(whole) - (IF EndsInNewline(whole) THEN 1 ELSE 0)
                /\ \A i \in DOMAIN message : message[i] = whole[i]
                /\ (EndsInNewline(m) /\ logger.suffix # <<>>)
                   => SubSeq(message, Len(logger.prefix) + 1,
                             Len(logger.prefix) + Len(m)) = m]_vars

\* C28: a message ending in a newline was followed by the suffix "\n"; the
\* Log emitted has lost the newline of the suffix and kept that of the message
C28_Witness ==
    /\ op = "Emit" /\ handed # <<>>
    /\ logger.suffix = <<"\n">>
    /\ handed[1].Message = logger.prefix \o <<"m", "\n">>

(***************************************************************************)
(* V and WithVerbosity against SetVerbose (part_002:644-652, 689-710)      *)
(*                                                                         *)
(* One goroutine derives a Logger from the parent with V or WithVerbosity  *)
(* and emits through it; another calls SetVerbose on the parent.  What a   *)
(* method does between l.mu.RLock() and RUnlock is one step, SetVerbose    *)
(* holding the write lock is one step.                                     *)
(***************************************************************************)

InitStale ==
    /\ \E s \in {SeverityInfo, SeverityDebug}, v \in Verbosities :
          loggers = [r \in Slots |-> IF r = "parent" THEN NewLogger("out", s, v) ELSE Nil]
    /\ arrays = <<>> /\ calls = 0 /\ target = "none"
    /\ logger = Nil /\ exited = FALSE /\ op = "none" /\ handed = <<>> /\ ret = "none"
    /\ pcV = "idle"
    /\ vArg = 0

\* V, part_002:693-698: the test of l.verbose under the read lock, which is
\* released before WithVerbosity is called; nil when the test fails
StaleVCheck(verbosity) ==
    /\ pcV = "idle"
    /\ op' = "V"
    /\ handed' = <<>>
    /\ vArg' = verbosity
    /\ IF loggers["parent"].verbose < verbosity
         THEN /\ loggers' = [loggers EXCEPT !["derived"] = Nil]
              /\ pcV' = "idle"
         ELSE /\ pcV' = "checked"
              /\ UNCHANGED loggers

\* V, part_002:699: l.WithVerbosity(verbosity), the clone taken under the
\* read lock again
StaleVClone ==
    /\ pcV = "checked"
    /\ loggers' = [loggers EXCEPT !["derived"] = WithVerbosity(loggers["parent"], vArg)]
    /\ pcV' = "idle"
    /\ UNCHANGED <<op, handed, vArg>>

\* derived = parent.WithVerbosity(verbosity) (part_002:703-710)
StaleWithVerbosity(verbosity) ==
    /\ pcV = "idle"
    /\ op' = "WithVerbosity"
    /\ handed' = <<>>
    /\ loggers' = [loggers EXCEPT !["derived"] = WithVerbosity(loggers["parent"], verbosity)]
    /\ UNCHANGED <<pcV, vArg>>

\* parent.SetVerbose(verbose), by the other goroutine (part_002:644-652)
StaleSetVerbose(verbose) ==
    /\ loggers' = [loggers EXCEPT !["parent"] = SetVerbose(loggers["parent"], verbose)]
    /\ UNCHANGED <<op, handed, pcV, vArg>>

\* derived.Error / Warning / Info / Debug (part_002:417-479, 530-588)
StaleEmit(severity) ==
    /\ pcV = "idle"
    /\ op' = "Emit"
    /\ handed' = Out(loggers["derived"], severity, "nil")
    /\ UNCHANGED <<loggers, pcV, vArg>>

exceptStale == <<arrays, calls, target, multiVars, severityVars, waitVars, errorVars,
                 chainVars, jsonVars, textVars, padVars, lockVars, hookVars>>

NextStale ==
    \/ \E v \in Verbosities : StaleVCheck(v)
          /\ UNCHANGED <<queueVars, logger, exited, ret, outputVars, exceptStale>>
    \/ StaleVClone
          /\ UNCHANGED <<queueVars, logger, exited, ret, outputVars, exceptStale>>
    \/ \E v \in Verbosities : StaleWithVerbosity(v)
          /\ UNCHANGED <<queueVars, logger, exited, ret, outputVars, exceptStale>>
    \/ \E v \in Verbosities : StaleSetVerbose(v)
          /\ UNCHANGED <<queueVars, logger, exited, ret, outputVars, exceptStale>>
    \/ \E s \in LeveledSeverities : StaleEmit(s)
          /\ UNCHANGED <<queueVars, logger, exited, ret, outputVars, exceptStale>>

InitSpecStale ==
    /\ InitStale
    /\ NewQueuedOutput(0) /\ IdleOutput
    /\ IdleMulti /\ IdleSeverity /\ IdleWait /\ IdleError
    /\ IdleChain /\ IdleJSON /\ IdleText /\ IdlePad /\ IdleLock /\ IdleHook

SpecStale == InitSpecStale /\ [][NextStale]_vars

\* C29: under any interleaving of V or WithVerbosity with SetVerbose on the
\* parent, a derived Logger never hands its Output a Log whose Verbosity
\* exceeds that derived Logger's own verbose threshold at emission; the Log
\* carries the verbosity given to V or WithVerbosity.
C29_NoTooVerboseLog ==
    [][\A s \in LeveledSeverities :
          (StaleEmit(s) /\ handed' # <<>>)
          => /\ Len(handed') = 1
             /\ handed'[1].Verbosity = loggers["derived"].verbosity
             /\ handed'[1].Verbosity <= loggers["derived"].verbose]_vars

\* C29: V has returned a Logger whose verbosity is above the verbose
\* threshold it copied, SetVerbose having lowered the parent's threshold
\* between the test and the clone, and a call on it has handed over nothing
C29_Witness ==
    /\ op = "Emit" /\ handed = <<>>
    /\ loggers["derived"] # Nil
    /\ vArg = loggers["derived"].verbosity
    /\ loggers["derived"].verbosity > loggers["derived"].verbose
    /\ loggers["derived"].severity = SeverityDebug

(***************************************************************************)
(* The deferred calls of Log (part_002:134-145, jsonoutput.go:33-44)       *)
(*                                                                         *)
(* Two goroutines call Log on one TextOutput or JSONOutput whose onError   *)
(* function returns, calls SetFlags or SetWriter on the output, or calls   *)
(* Log on it again.  A Log call in progress is a frame: where it is, the   *)
(* calls it has deferred, and its err.                                     *)
(***************************************************************************)

HookBehaviours == {"returns", "SetFlags", "SetWriter", "Log"}

\* a variant of RunOrder that runs the deferred calls in the order of their
\* defer statements
RunOrderDeferred(defers) == defers

\* the deferred calls of a function run in the reverse order of their defer
\* statements: Log defers the onError call first (part_002:136-142,
\* jsonoutput.go:35-41) and o.mu.RUnlock() second (part_002:145,
\* jsonoutput.go:44)
RunOrder(defers) == [i \in 1..Len(defers) |-> defers[Len(defers) + 1 - i]]

\* the innermost Log call of goroutine p
Top(p) == frames[p][Len(frames[p])]

\* frames with the innermost call of p replaced
WithTop(p, frame) == [frames EXCEPT ![p] = [@ EXCEPT ![Len(@)] = frame]]

\* the read locks of o.mu held by goroutine p
HeldBy(p) == {r \in mu.readers : r[1] = p}

\* the goroutines inside o.mu.Lock()
InLock == {p \in Producers : frames[p] # <<>> /\ Top(p).at = "Lock"}

\* NewTextOutput (part_002:126-131), NewJSONOutput (jsonoutput.go:24-30)
InitHook ==
    /\ kind \in Kinds
    /\ mu = [readers |-> {}, writer |-> "none"]
    /\ flags = 0
    /\ pcOut = [p \in Producers |-> "idle"]
    /\ buf = [p \in Producers |-> <<>>]
    /\ pcSet = "idle"
    /\ setArg = 0
    /\ sink = <<>>
    /\ nextRec = 1
    /\ onError = "unset"
    /\ reported = <<>>
    /\ frames = [p \in Producers |-> <<>>]
    /\ hookDoes = "returns"

\* o.SetOnError(f), f a function that does what does says (part_002:290-293,
\* jsonoutput.go:194-197)
HookSetOnError(does) ==
    /\ onError = "unset"
    /\ onError' = "fn"
    /\ hookDoes' = does
    /\ UNCHANGED <<outputVars, reported, frames>>

\* the beginning of a Log call by p, nested in calls: the onError call is
\* deferred and o.mu.RLock() is called (part_002:135-144, jsonoutput.go:34-43)
Enter(p, fault, calls_) ==
    Append(calls_, [at |-> "RLock", defers |-> <<"onError">>, todo |-> <<>>,
                    err |-> LogErr(fault), id |-> nextRec])

\* o.Log(log) is called by goroutine p
HookLogCall(p, fault) ==
    /\ frames[p] = <<>>
    /\ nextRec <= MaxLogs
    /\ fault \in Faults(kind)
    /\ frames' = [frames EXCEPT ![p] = Enter(p, fault, @)]
    /\ nextRec' = nextRec + 1
    /\ UNCHANGED <<kind, mu, flags, pcOut, buf, pcSet, setArg, sink,
                   onError, reported, hookDoes>>

\* o.mu.RLock() returns and o.mu.RUnlock() is deferred (part_002:144-145,
\* jsonoutput.go:43-44)
HookRLock(p) ==
    /\ frames[p] # <<>>
    /\ Top(p).at = "RLock"
    /\ CanRLock(mu)
    /\ mu' = [mu EXCEPT !.readers = @ \cup {<<p, Len(frames[p])>>}]
    /\ frames' = WithTop(p, [Top(p) EXCEPT !.at = "body",
                                           !.defers = Append(@, "RUnlock")])
    /\ UNCHANGED <<kind, flags, pcOut, buf, pcSet, setArg, sink, nextRec,
                   onError, reported, hookDoes>>

\* the body of Log: the record is formatted and copied to the writer unless
\* that fails, and Log returns (part_002:147-267, jsonoutput.go:46-171)
HookBody(p) ==
    /\ frames[p] # <<>>
    /\ Top(p).at = "body"
    /\ sink' = IF Top(p).err = "nil" THEN Append(sink, Top(p).id) ELSE sink
    /\ frames' = WithTop(p, [Top(p) EXCEPT !.at = "return",
                                           !.todo = RunOrder(Top(p).defers)])
    /\ UNCHANGED <<kind, mu, flags, pcOut, buf, pcSet, setArg, nextRec,
                   onError, reported, hookDoes>>

\* the deferred o.mu.RUnlock() runs (part_002:145, jsonoutput.go:44)
HookDeferredRUnlock(p) ==
    /\ frames[p] # <<>>
    /\ Top(p).at = "return"
    /\ Top(p).todo # <<>>
    /\ Head(Top(p).todo) = "RUnlock"
    /\ mu' = [mu EXCEPT !.readers = @ \ {<<p, Len(frames[p])>>}]
    /\ frames' = WithTop(p, [Top(p) EXCEPT !.todo = Tail(@)])
    /\ UNCHANGED <<kind, flags, pcOut, buf, pcSet, setArg, sink, nextRec,
                   onError, reported, hookDoes>>

\* the deferred function runs: it returns, or calls (*onError)(err)
\* (part_002:136-142, jsonoutput.go:35-41)
HookDeferredOnError(p) ==
    /\ frames[p] # <<>>
    /\ Top(p).at = "return"
    /\ Top(p).todo # <<>>
    /\ Head(Top(p).todo) = "onError"
    /\ IF OnErrorCalls(onError, Top(p).err) = 1
         THEN /\ reported' = Append(reported, [log |-> Top(p).id, err |-> Top(p).err])
              /\ frames' = WithTop(p, [Top(p) EXCEPT !.at = "onError", !.todo = Tail(@)])
         ELSE /\ frames' = WithTop(p, [Top(p) EXCEPT !.todo = Tail(@)])
              /\ UNCHANGED reported
    /\ UNCHANGED <<outputVars, onError, hookDoes>>

\* the onError function returns without calling anything on o
HookReturns(p) ==
    /\ frames[p] # <<>>
    /\ Top(p).at = "onError"
    /\ hookDoes = "returns"
    /\ frames' = WithTop(p, [Top(p) EXCEPT !.at = "return"])
    /\ UNCHANGED <<outputVars, onError, reported, hookDoes>>

\* the onError function calls o.SetFlags or o.SetWriter: o.mu.Lock() is
\* called (part_002:273, 282, jsonoutput.go:178, 187)
HookSetterLock(p) ==
    /\ frames[p] # <<>>
    /\ Top(p).at = "onError"
    /\ hookDoes \in {"SetFlags", "SetWriter"}
    /\ mu' = [mu EXCEPT !.writer = IF @ = "none" THEN "pending" ELSE @]
    /\ frames' = WithTop(p, [Top(p) EXCEPT !.at = "Lock"])
    /\ UNCHANGED <<kind, flags, pcOut, buf, pcSet, setArg, sink, nextRec,
                   onError, reported, hookDoes>>

\* o.mu.Lock() returns
HookSetterLocked(p) ==
    /\ frames[p] # <<>>
    /\ Top(p).at = "Lock"
    /\ mu.writer = "pending"
    /\ CanLock(mu)
    /\ mu' = [mu EXCEPT !.writer = "held"]
    /\ frames' = WithTop(p, [Top(p) EXCEPT !.at = "locked"])
    /\ UNCHANGED <<kind, flags, pcOut, buf, pcSet, setArg, sink, nextRec,
                   onError, reported, hookDoes>>

\* o.flags = flags or o.w = w, the deferred o.mu.Unlock(), and the onError
\* function returns (part_002:274-276, 283-285, jsonoutput.go:179-190)
HookSetterUnlock(p, f) ==
    /\ frames[p] # <<>>
    /\ Top(p).at = "locked"
    /\ flags' = IF hookDoes = "SetFlags" THEN f ELSE flags
    /\ mu' = [mu EXCEPT !.writer = IF InLock = {} THEN "none" ELSE "pending"]
    /\ frames' = WithTop(p, [Top(p) EXCEPT !.at = "return"])
    /\ UNCHANGED <<kind, pcOut, buf, pcSet, setArg, sink, nextRec,
                   onError, reported, hookDoes>>

\* the onError function calls o.Log
HookLogAgain(p, fault) ==
    /\ frames[p] # <<>>
    /\ Top(p).at = "onError"
    /\ hookDoes = "Log"
    /\ nextRec <= MaxLogs
    /\ fault \in Faults(kind)
    /\ frames' = [frames EXCEPT ![p] =
                     Enter(p, fault, [@ EXCEPT ![Len(@)].at = "called"])]
    /\ nextRec' = nextRec + 1
    /\ UNCHANGED <<kind, mu, flags, pcOut, buf, pcSet, setArg, sink,
                   onError, reported, hookDoes>>

\* every deferred call has run: Log returns, into the onError function that
\* called it when there is one, which then returns too
HookLogReturn(p) ==
    /\ frames[p] # <<>>
    /\ Top(p).at = "return"
    /\ Top(p).todo = <<>>
    /\ frames' = [frames EXCEPT ![p] =
                     IF Len(@) = 1 THEN <<>>
                     ELSE [i \in 1..(Len(@) - 1) |->
                              IF i = Len(@) - 1 THEN [@[i] EXCEPT !.at = "return"]
                              ELSE @[i]]]
    /\ UNCHANGED <<outputVars, onError, reported, hookDoes>>

exceptHook == <<deriveVars, multiVars, severityVars, waitVars, chainVars, jsonVars,
                textVars, padVars, lockVars, staleVars>>

NextHook ==
    \/ \E does \in HookBehaviours : HookSetOnError(does)
          /\ UNCHANGED <<queueVars, loggerVars, exceptHook>>
    \/ \E p \in Producers, fault \in {"none", "marshal", "write"} : HookLogCall(p, fault)
          /\ UNCHANGED <<queueVars, loggerVars, exceptHook>>
    \/ \E p \in Producers : HookRLock(p)
          /\ UNCHANGED <<queueVars, loggerVars, exceptHook>>
    \/ \E p \in Producers : HookBody(p)
          /\ UNCHANGED <<queueVars, loggerVars, exceptHook>>
    \/ \E p \in Producers : HookDeferredRUnlock(p)
          /\ UNCHANGED <<queueVars, loggerVars, exceptHook>>
    \/ \E p \in Producers : HookDeferredOnError(p)
          /\ UNCHANGED <<queueVars, loggerVars, exceptHook>>
    \/ \E p \in Producers : HookReturns(p)
          /\ UNCHANGED <<queueVars, loggerVars, exceptHook>>
    \/ \E p \in Producers : HookSetterLock(p)
          /\ UNCHANGED <<queueVars, loggerVars, exceptHook>>
    \/ \E p \in Producers : HookSetterLocked(p)
          /\ UNCHANGED <<queueVars, loggerVars, exceptHook>>
    \/ \E p \in Producers, f \in FlagArgs : HookSetterUnlock(p, f)
          /\ UNCHANGED <<queueVars, loggerVars, exceptHook>>
    \/ \E p \in Producers, fault \in {"none", "marshal", "write"} : HookLogAgain(p, fault)
          /\ UNCHANGED <<queueVars, loggerVars, exceptHook>>
    \/ \E p \in Producers : HookLogReturn(p)
          /\ UNCHANGED <<queueVars, loggerVars, exceptHook>>

InitSpecHook ==
    /\ InitHook
    /\ NewQueuedOutput(0) /\ IdleLogger /\ IdleDerive /\ IdleMulti
    /\ IdleSeverity /\ IdleWait /\ IdleChain /\ IdleJSON
    /\ IdleText /\ IdlePad /\ IdleLock /\ IdleStale

SpecHook == InitSpecHook /\ [][NextHook]_vars

\* the goroutines waiting for o.mu
WaitingForMu == {p \in Producers : frames[p] # <<>> /\ Top(p).at \in {"RLock", "Lock"}}

\* some goroutine can take o.mu or is about to release it
MuMoves ==
    \/ \E p \in Producers :
          frames[p] # <<>> /\ Top(p).at \in {"body", "return", "locked"}
    \/ \E p \in WaitingForMu :
          \/ Top(p).at = "RLock" /\ CanRLock(mu)
          \/ Top(p).at = "Lock" /\ mu.writer = "pending" /\ CanLock(mu)

\* C30: the onError function is called only after the Log call it belongs
\* to has released o.mu: while a goroutine is inside the function it holds
\* no read lock of o.mu except that of a Log call made by the function
\* itself, a goroutine waiting for o.mu holds none at all, and whenever
\* goroutines wait for o.mu one of them can take it or a holder is about to
\* release it, whether the function calls SetFlags, SetWriter or Log.
C30_HookAfterUnlock ==
    /\ \A p \in Producers : \A i \in 1..Len(frames[p]) :
          frames[p][i].at \in {"onError", "Lock", "locked", "called"}
          => <<p, i>> \notin mu.readers
    /\ \A p \in WaitingForMu : HeldBy(p) = {}
    /\ WaitingForMu # {} => MuMoves

\* C30: a Log call that failed has released o.mu and the onError function
\* it called is waiting inside SetFlags for another Log call to release it
C30_Witness ==
    /\ hookDoes = "SetFlags"
    /\ \E p, q \in Producers :
          /\ p # q
          /\ frames[p] # <<>> /\ Top(p).at = "Lock"
          /\ frames[q] # <<>> /\ Top(q).at = "body"
          /\ mu.readers = {<<q, 1>>}
          /\ mu.writer = "pending"

\* C30: the onError function has called Log again, and the nested call
\* holds o.mu's read lock while the call that failed holds none
C30_NestedLog ==
    /\ hookDoes = "Log"
    /\ \E p \in Producers :
          /\ Len(frames[p]) = 2
          /\ Top(p).at = "body"
          /\ HeldBy(p) = {<<p, 2>>}

====
